---- MODULE Spec2Model ----
(***************************************************************************)
(* Model of the currency-fomatter formatting / parsing engine and of the   *)
(* CurrencyFormat component's edit cycle.                                  *)
(*                                                                         *)
(* A JavaScript string is a sequence of one-character strings, indexed     *)
(* from 1 here and from 0 in the source; the operators that take or return *)
(* an index keep the source's 0-based convention.                          *)
(***************************************************************************)
EXTENDS Integers, Sequences, FiniteSets, TLC

(***************************************************************************)
(* String primitives of the JavaScript runtime the code relies on.         *)
(***************************************************************************)
Digits == {"0", "1", "2", "3", "4", "5", "6", "7", "8", "9"}

Min(a, b) == IF a < b THEN a ELSE b

Max(a, b) == IF a > b THEN a ELSE b

\* str.substring(a, b): both ends clamped to [0, length], swapped when a > b.
Substring(s, a, b) ==
    LET between(ca, cb) == SubSeq(s, Min(ca, cb) + 1, Max(ca, cb))
    IN  between(Min(Max(a, 0), Len(s)), Min(Max(b, 0), Len(s)))

\* str[i]: the character at 0-based index i, "" standing for undefined.
CharAt(s, i) == IF i >= 0 /\ i < Len(s) THEN s[i + 1] ELSE ""

\* sub occurs in s at 0-based index i.
OccursAt(s, sub, i) ==
    /\ i >= 0
    /\ i + Len(sub) <= Len(s)
    /\ SubSeq(s, i + 1, i + Len(sub)) = sub

\* str.indexOf(sub, from)
IndexOf(s, sub, from) ==
    LET first(hits) == IF hits = {} THEN -1 ELSE CHOOSE i \in hits : \A k \in hits : i <= k
    IN  first({i \in Min(Max(from, 0), Len(s))..Len(s) : OccursAt(s, sub, i)})

\* str.lastIndexOf(sub)
LastIndexOf(s, sub) ==
    LET last(hits) == IF hits = {} THEN -1 ELSE CHOOSE i \in hits : \A k \in hits : i >= k
    IN  last({i \in 0..Len(s) : OccursAt(s, sub, i)})

\* The characters of s that lie in the set keep, in order:
\* (s.match(/[keep]/g) || []).join("")
RECURSIVE KeepIn(_, _)
KeepIn(s, keep) ==
    IF s = <<>> THEN <<>>
    ELSE (IF Head(s) \in keep THEN <<Head(s)>> ELSE <<>>) \o KeepIn(Tail(s), keep)

\* s.replace(/ch/g, ""): every occurrence of the character removed.
RECURSIVE RemoveChar(_, _)
RemoveChar(s, ch) ==
    IF s = <<>> THEN <<>>
    ELSE (IF Head(s) = ch THEN <<>> ELSE <<Head(s)>>) \o RemoveChar(Tail(s), ch)

\* str.replace(ch, by) with a string pattern: the first occurrence only.
ReplaceFirst(s, ch, by) ==
    LET at(i) == IF i = -1 THEN s ELSE SubSeq(s, 1, i) \o by \o SubSeq(s, i + 2, Len(s))
    IN  at(IndexOf(s, <<ch>>, 0))

\* str.split(ch): the pieces between the occurrences of the character ch.
RECURSIVE Split(_, _)
Split(s, ch) ==
    LET at(i) == IF i = -1 THEN <<s>>
                 ELSE <<SubSeq(s, 1, i)>> \o Split(SubSeq(s, i + 2, Len(s)), ch)
    IN  at(IndexOf(s, <<ch>>, 0))

\* s.replace(/^0+/, "")
RECURSIVE StripLeadingZeros(_)
StripLeadingZeros(s) ==
    IF s # <<>> /\ Head(s) = "0" THEN StripLeadingZeros(Tail(s)) ELSE s

\* The concatenation of a sequence of strings: ary.join("")
RECURSIVE Join(_)
Join(ss) == IF ss = <<>> THEN <<>> ELSE Head(ss) \o Join(Tail(ss))

charIsNumber(ch) == ch \in Digits

(***************************************************************************)
(* Numbers.  parseFloat yields NaN or a number; a number is kept exactly,  *)
(* as its sign, its integer part and the digits of its fraction without    *)
(* the trailing zeros.  Zero has no sign (0 and -0 compare equal).         *)
(***************************************************************************)
NaN == [nan |-> TRUE, neg |-> FALSE, int |-> 0, frac |-> <<>>]

Num(neg, int, frac) == [nan |-> FALSE, neg |-> neg, int |-> int, frac |-> frac]

isZero(x) == ~x.nan /\ x.int = 0 /\ x.frac = <<>>

RECURSIVE Pow10(_)
Pow10(n) == IF n <= 0 THEN 1 ELSE 10 * Pow10(n - 1)

DigitValue(ch) ==
    CASE ch = "0" -> 0 [] ch = "1" -> 1 [] ch = "2" -> 2 [] ch = "3" -> 3
      [] ch = "4" -> 4 [] ch = "5" -> 5 [] ch = "6" -> 6 [] ch = "7" -> 7
      [] ch = "8" -> 8 [] ch = "9" -> 9

RECURSIVE DigitsValue(_)
DigitsValue(s) ==
    IF s = <<>> THEN 0 ELSE 10 * DigitsValue(SubSeq(s, 1, Len(s) - 1)) + DigitValue(s[Len(s)])

\* The longest prefix of s made of digits.
RECURSIVE DigitRun(_)
DigitRun(s) ==
    IF s # <<>> /\ Head(s) \in Digits THEN <<Head(s)>> \o DigitRun(Tail(s)) ELSE <<>>

\* s padded with "0" on the right, or cut, to exactly n characters.
PadRight(s, n) == [i \in 1..n |-> IF i <= Len(s) THEN s[i] ELSE "0"]

RECURSIVE StripTrailingZeros(_)
StripTrailingZeros(s) ==
    IF s # <<>> /\ s[Len(s)] = "0" THEN StripTrailingZeros(SubSeq(s, 1, Len(s) - 1)) ELSE s

\* parseFloat(s): an optional sign, digits, an optional "." and digits; whatever
\* follows is ignored; NaN when no digit is found.  (Leading white space,
\* exponents and "Infinity" do not occur in the strings of this model.)
parseFloat(s) ==
    LET number(neg, n, f) == Num(neg /\ (n # 0 \/ f # <<>>), n, f)
        parsed(neg, int, frac) ==
            IF int = <<>> /\ frac = <<>> THEN NaN
            ELSE number(neg, DigitsValue(int), StripTrailingZeros(frac))
        fraction(rest) ==
            IF rest # <<>> /\ Head(rest) = "." THEN DigitRun(Tail(rest)) ELSE <<>>
        integer(neg, body, int) ==
            parsed(neg, int, fraction(SubSeq(body, Len(int) + 1, Len(body))))
        unsigned(neg, body) == integer(neg, body, DigitRun(body))
    IN  unsigned(s # <<>> /\ Head(s) = "-",
                 IF s # <<>> /\ Head(s) \in {"-", "+"} THEN Tail(s) ELSE s)

\* x || NaN: 0 and NaN are the falsy numbers.
OrNaN(x) == IF x.nan \/ isZero(x) THEN NaN ELSE x

(***************************************************************************)
(* utils.ts                                                                *)
(***************************************************************************)
splitString(str, index) == <<Substring(str, 0, index), Substring(str, index, Len(str))>>

\* Mutant: the string comes back as it is.
fixLeadingZeroKeeps(numStr) == numStr

fixLeadingZero(numStr) ==
    IF numStr = <<>> THEN numStr
    ELSE LET joined(isNegative, beforeDecimal, afterDecimal) ==
                 (IF isNegative THEN <<"-">> ELSE <<>>) \o beforeDecimal
                   \o (IF afterDecimal # <<>> THEN <<".">> \o afterDecimal ELSE <<>>)
             stripped(isNegative, before, afterDecimal) ==
                 joined(isNegative, IF before = <<>> THEN <<"0">> ELSE before, afterDecimal)
             split(isNegative, parts) ==
                 stripped(isNegative, StripLeadingZeros(parts[1]),
                          IF Len(parts) >= 2 THEN parts[2] ELSE <<>>)
         IN  split(Head(numStr) = "-",
                   Split(IF Head(numStr) = "-" THEN Tail(numStr) ELSE numStr, "."))

RECURSIVE limitToScaleFrom(_, _, _, _)
limitToScaleFrom(numStr, scale, filler, i) ==
    IF i > scale - 1 THEN <<>>
    ELSE (IF i < Len(numStr) THEN <<numStr[i + 1]>> ELSE filler)
           \o limitToScaleFrom(numStr, scale, filler, i + 1)

\* Mutant: the filler is "" whatever fixedDecimalScale is.
limitToScaleNoFiller(numStr, scale, fixedDecimalScale) ==
    limitToScaleFrom(numStr, scale, <<>>, 0)

limitToScale(numStr, scale, fixedDecimalScale) ==
    limitToScaleFrom(numStr, scale, IF fixedDecimalScale THEN <<"0">> ELSE <<>>, 0)

\* n.toString() for a small non-negative integer.
RECURSIVE IntToStr(_)
IntToStr(n) ==
    LET d == <<"0", "1", "2", "3", "4", "5", "6", "7", "8", "9">>
    IN  IF n < 10 THEN <<d[n + 1]>> ELSE IntToStr(n \div 10) \o <<d[(n % 10) + 1]>>

\* n as a string of exactly len digits (leading zeros kept).
RECURSIVE ZeroPad(_, _)
ZeroPad(s, len) == IF Len(s) >= len THEN s ELSE ZeroPad(<<"0">> \o s, len)

\* The fractions 0.d..d5 of up to four digits 0, 5, 9 whose double lies below
\* the decimal they are written as (0.995 is 0.99499999999999999555...):
\* toFixed rounds the double, so these ties go down.
toFixedBelowTie ==
    { <<"9", "5">>,
      <<"5", "9", "5">>, <<"9", "5", "5">>, <<"9", "9", "5">>,
      <<"0", "0", "5", "5">>, <<"0", "0", "9", "5">>, <<"0", "5", "9", "5">>,
      <<"0", "9", "0", "5">>, <<"5", "0", "0", "5">>, <<"5", "0", "5", "5">>,
      <<"5", "0", "9", "5">>, <<"5", "5", "0", "5">>, <<"5", "5", "5", "5">>,
      <<"5", "5", "9", "5">>, <<"9", "0", "0", "5">>, <<"9", "0", "5", "5">>,
      <<"9", "0", "9", "5">> }

\* parseFloat("0." + frac).toFixed(scale).split("."): the carry into the integer
\* part and the rounded fractional digits.  toFixed rounds the double half up:
\* a digit of 5 or more after the scale rounds up, but for a tie whose double
\* is below the decimal (toFixedBelowTie).
toFixedParts(frac0, scale) ==
    LET parts(n) ==
            IF scale = 0 THEN <<IntToStr(n \div Pow10(scale))>>
            ELSE <<IntToStr(n \div Pow10(scale)), ZeroPad(IntToStr(n % Pow10(scale)), scale)>>
        rounded(frac, kept) ==
            parts(IF /\ Len(frac) > scale
                     /\ DigitValue(frac[scale + 1]) >= 5
                     /\ ~(/\ Len(StripTrailingZeros(frac)) = scale + 1
                          /\ StripTrailingZeros(frac) \in toFixedBelowTie)
                  THEN kept + 1 ELSE kept)
        digits(frac) == rounded(frac, DigitsValue(PadRight(frac, scale)))
    IN  digits(DigitRun(frac0))

\* (Number(a) + Number(b)).toString() for two characters.
addChars(a, b) ==
    IF a \in Digits /\ b \in Digits THEN IntToStr(DigitValue(a) + DigitValue(b))
    ELSE <<"N", "a", "N">>

\* The reduce of roundToPrecision over the reversed integer digits.
RECURSIVE roundReduce(_, _, _)
roundReduce(intDigits, idx, roundedStr) ==
    IF idx >= Len(intDigits) THEN roundedStr
    ELSE LET current == intDigits[Len(intDigits) - idx]
         IN  roundReduce(intDigits, idx + 1,
                 IF Len(roundedStr) > idx
                 THEN addChars(Head(roundedStr), current) \o Tail(roundedStr)
                 ELSE <<current>> \o roundedStr)

roundToPrecision(numStr, scale, fixedDecimalScale) ==
    LET joined(intPart, decimalPart) ==
            intPart \o (IF decimalPart # <<>> THEN <<".">> \o decimalPart ELSE <<>>)
        rounded(numberParts, frac, roundedDecimalParts) ==
            joined(roundReduce(numberParts[1], 0, roundedDecimalParts[1]),
                   limitToScale(IF Len(roundedDecimalParts) >= 2
                                THEN roundedDecimalParts[2] ELSE <<>>,
                                Len(frac), fixedDecimalScale))
        fraction(numberParts, frac) ==
            rounded(numberParts, frac,
                    toFixedParts(IF frac = <<>> THEN <<"0">> ELSE frac, scale))
        split(numberParts) ==
            fraction(numberParts, IF Len(numberParts) >= 2 THEN numberParts[2] ELSE <<>>)
    IN  split(Split(numStr, "."))

(***************************************************************************)
(* useFormatting.ts.  c is the record of the formatting props.             *)
(*   thousandSeparator: a character, "" (false) or "true" (the boolean);   *)
(*   decimalScale: NoScale when the prop is undefined;                     *)
(*   format: the pattern string, <<>> when absent;                         *)
(*   mask: [isArray, chars]: a string, or an array of one-character strings*)
(***************************************************************************)
NoScale == -1

TSepTrue == "true"

TSepFalse == "false"

\* A thousandSeparator the code treats as absent: false or "".
falsySep(sep) == sep \in {"", TSepFalse}

getSeparators(c) ==
    [decimalSeparator  |-> c.decimalSeparator,
     thousandSeparator |-> IF c.thousandSeparator = TSepTrue THEN "," ELSE c.thousandSeparator,
     thousandSpacing   |-> c.thousandSpacing]

hasFormat(c) == c.format # <<>>

\* Mutant: every unfilled placeholder shows a space.
getMaskAtIndexBlank(c, index) == <<" ">>

getMaskAtIndex(c, index) ==
    IF ~c.mask.isArray THEN c.mask.chars
    ELSE IF index < Len(c.mask.chars) /\ c.mask.chars[index + 1] # ""
         THEN <<c.mask.chars[index + 1]>> ELSE <<" ">>

\* The characters getNumberRegex(g, ignoreDecimalSeparator) matches.
getNumberRegex(c, ignoreDecimalSeparator) ==
    Digits \cup (IF /\ c.decimalSeparator # ""
                    /\ c.decimalScale # 0
                    /\ ~ignoreDecimalSeparator
                    /\ ~hasFormat(c)
                 THEN {c.decimalSeparator} ELSE {})

\* Mutant: addNegation does not look at allowNegative.
splitDecimalKeepsSign(c, numStr) ==
    LET result(hasNegation, parts) ==
            [beforeDecimal |-> parts[1],
             afterDecimal  |-> IF Len(parts) >= 2 THEN parts[2] ELSE <<>>,
             hasNegation   |-> hasNegation,
             addNegation   |-> hasNegation]
    IN  result(CharAt(numStr, 0) = "-", Split(ReplaceFirst(numStr, "-", <<>>), "."))

splitDecimal(c, numStr) ==
    LET result(hasNegation, parts) ==
            [beforeDecimal |-> parts[1],
             afterDecimal  |-> IF Len(parts) >= 2 THEN parts[2] ELSE <<>>,
             hasNegation   |-> hasNegation,
             addNegation   |-> hasNegation /\ c.allowNegative]
    IN  result(CharAt(numStr, 0) = "-", Split(ReplaceFirst(numStr, "-", <<>>), "."))

getFloatString(c, num0) ==
    LET signed(hasNegation, num) == IF hasNegation THEN <<"-">> \o num ELSE num
        decimal(num, firstDecimalIndex) ==
            IF firstDecimalIndex # -1
            THEN Substring(num, 0, firstDecimalIndex) \o <<".">>
                   \o RemoveChar(Substring(num, firstDecimalIndex + 1, Len(num)),
                                 c.decimalSeparator)
            ELSE num
        matched(hasNegation, num) ==
            signed(hasNegation, decimal(num, IndexOf(num, <<".">>, 0)))
        unsigned(hasNegation) ==
            matched(hasNegation,
                    ReplaceFirst(KeepIn(IF hasNegation THEN ReplaceFirst(num0, "-", <<>>)
                                        ELSE num0,
                                        getNumberRegex(c, FALSE)),
                                 c.decimalSeparator, <<".">>))
    IN  unsigned(CharAt(num0, 0) = "-")

\* Mutant: the "2s" expression loses its trailing (\d{1}), which makes it "2".
digitalGroupNoScale(spacing, following) ==
    CASE spacing \in {"2", "2s"} -> following >= 2 /\ following % 2 = 0
      [] spacing = "4"           -> following >= 4 /\ following % 4 = 0
      [] OTHER                   -> following >= 3 /\ following % 3 = 0

\* The look-ahead of the grouping regular expression of a spacing, on the
\* number of digits that follow a digit up to the next non-digit:
\*   "2":  (?=(\d{2})+(?!\d))        "2s": (?=(((\d{2})+)(\d{1})(?!\d)))
\*   "4":  (?=(\d{4})+(?!\d))        else: (?=(\d{3})+(?!\d))
digitalGroup(spacing, following) ==
    CASE spacing = "2"  -> following >= 2 /\ following % 2 = 0
      [] spacing = "2s" -> following >= 3 /\ following % 2 = 1
      [] spacing = "4"  -> following >= 4 /\ following % 4 = 0
      [] OTHER          -> following >= 3 /\ following % 3 = 0

\* str.replace(digitalGroup, "$1" + separator)
RECURSIVE replaceDigitalGroup(_, _, _)
replaceDigitalGroup(str, separator, spacing) ==
    IF str = <<>> THEN <<>>
    ELSE <<Head(str)>>
           \o (IF Head(str) \in Digits /\ digitalGroup(spacing, Len(DigitRun(Tail(str))))
               THEN <<separator>> ELSE <<>>)
           \o replaceDigitalGroup(Tail(str), separator, spacing)

formatThousand(beforeDecimal, separator, spacing) ==
    replaceDigitalGroup(beforeDecimal, separator, spacing)

RECURSIVE formatWithPatternFrom(_, _, _, _)
formatWithPatternFrom(c, numStr, i, hashCount) ==
    IF i >= Len(c.format) THEN <<>>
    ELSE IF c.format[i + 1] = "#"
         THEN (IF hashCount < Len(numStr) THEN <<numStr[hashCount + 1]>>
               ELSE getMaskAtIndex(c, hashCount))
                \o formatWithPatternFrom(c, numStr, i + 1, hashCount + 1)
         ELSE <<c.format[i + 1]>> \o formatWithPatternFrom(c, numStr, i + 1, hashCount)

formatWithPattern(c, numStr) ==
    IF ~hasFormat(c) THEN numStr ELSE formatWithPatternFrom(c, numStr, 0, 0)

formatAsNumber(c, numStr) ==
    LET sep == getSeparators(c)
        joined(hasDecimalSeparator, beforeDecimal, afterDecimal) ==
            beforeDecimal
              \o (IF hasDecimalSeparator /\ sep.decimalSeparator # ""
                  THEN <<sep.decimalSeparator>> ELSE <<>>)
              \o afterDecimal
        affixed(hasDecimalSeparator, addNegation, beforeDecimal, afterDecimal) ==
            joined(hasDecimalSeparator,
                   (IF addNegation THEN <<"-">> ELSE <<>>) \o c.prefix \o beforeDecimal,
                   afterDecimal \o c.suffix)
        grouped(hasDecimalSeparator, sd, beforeDecimal) ==
            affixed(hasDecimalSeparator, sd.addNegation,
                    IF ~falsySep(sep.thousandSeparator)
                    THEN formatThousand(beforeDecimal, sep.thousandSeparator,
                                        sep.thousandSpacing)
                    ELSE beforeDecimal,
                    IF c.decimalScale # NoScale
                    THEN limitToScale(sd.afterDecimal, c.decimalScale, c.fixedDecimalScale)
                    ELSE sd.afterDecimal)
        parts(hasDecimalSeparator, sd) ==
            grouped(hasDecimalSeparator, sd,
                    IF sd.beforeDecimal = <<>> /\ hasDecimalSeparator
                    THEN <<"0">> ELSE sd.beforeDecimal)
    IN  parts(\/ IndexOf(numStr, <<".">>, 0) # -1
              \/ (c.decimalScale # NoScale /\ c.decimalScale # 0 /\ c.fixedDecimalScale),
              splitDecimal(c, numStr))

removePrefixAndSuffix(c, val0) ==
    IF ~hasFormat(c) /\ val0 # <<>>
    THEN LET signed(isNegative, val) == IF isNegative THEN <<"-">> \o val ELSE val
             noSuffix(val, suffixLastIndex) ==
                 IF /\ c.suffix # <<>>
                    /\ suffixLastIndex # -1
                    /\ suffixLastIndex = Len(val) - Len(c.suffix)
                 THEN Substring(val, 0, suffixLastIndex) ELSE val
             noPrefix(val) ==
                 IF c.prefix # <<>> /\ IndexOf(val, c.prefix, 0) = 0
                 THEN Substring(val, Len(c.prefix), Len(val)) ELSE val
             suffixed(isNegative, val) ==
                 signed(isNegative, noSuffix(val, LastIndexOf(val, c.suffix)))
             unsigned(isNegative) ==
                 suffixed(isNegative,
                          noPrefix(IF isNegative THEN Substring(val0, 1, Len(val0)) ELSE val0))
         IN  unsigned(Head(val0) = "-")
    ELSE val0

\* format.split("#").filter(str => str !== ""): the literal pieces of a pattern.
formatArray(format) == SelectSeq(Split(format, "#"), LAMBDA str : str # <<>>)

RECURSIVE removePatternLoop(_, _, _, _, _)
removePatternLoop(parts, val, i, start, numStr) ==
    IF i > Len(parts) THEN numStr
    ELSE LET step(part, index) ==
                 IF index = -1 THEN val
                 ELSE removePatternLoop(parts, val, i + 1, index + Len(part),
                                        numStr \o Substring(val, start, index))
             found(part) ==
                 step(part, IF i = Len(parts) THEN Len(val) ELSE IndexOf(val, part, start))
         IN  found(IF i < Len(parts) THEN parts[i + 1] ELSE <<>>)

removePatternFormatting(c, val) ==
    IF ~hasFormat(c) THEN val
    ELSE KeepIn(removePatternLoop(formatArray(c.format), val, 0, 0, <<>>), Digits)

removeFormatting(c, val) ==
    IF val = <<>> THEN val
    ELSE IF ~hasFormat(c) THEN getFloatString(c, removePrefixAndSuffix(c, val))
    ELSE removePatternFormatting(c, val)

formatNumString(c, value) ==
    IF value = <<>>
    THEN IF c.allowEmptyFormatting
         THEN IF hasFormat(c) THEN formatWithPattern(c, <<>>) ELSE c.prefix \o c.suffix
         ELSE <<>>
    ELSE IF value = <<"-">> /\ ~hasFormat(c) THEN <<"-">>
    ELSE IF hasFormat(c) THEN formatWithPattern(c, value)
    ELSE formatAsNumber(c, value)

formatNegation(c, value) ==
    LET hasNegation        == "-" \in {value[i] : i \in 1..Len(value)}
        removeNegationFlag == Cardinality({i \in 1..Len(value) : value[i] = "-"}) >= 2
    IN  (IF hasNegation /\ ~removeNegationFlag /\ c.allowNegative THEN <<"-">> ELSE <<>>)
          \o RemoveChar(value, "-")

formatInput(c, value) ==
    formatNumString(c, removeFormatting(c, IF ~hasFormat(c) THEN formatNegation(c, value) ELSE value))

\* The grouping regular expressions of formatCurrency (its own switch).
currencyDigitalGroup(spacing, following) ==
    CASE spacing = "2"  -> following >= 2 /\ following % 2 = 0
      [] spacing = "2s" -> following >= 3 /\ following % 2 = 1
      [] spacing = "4"  -> following >= 4 /\ following % 4 = 0
      [] OTHER          -> following >= 3 /\ following % 3 = 0

\* beforeDecimal.replace(digitalGroup, "$1" + sep) in formatCurrency
RECURSIVE currencyReplaceGroup(_, _, _)
currencyReplaceGroup(str, sep, spacing) ==
    IF str = <<>> THEN <<>>
    ELSE <<Head(str)>>
           \o (IF Head(str) \in Digits /\ currencyDigitalGroup(spacing, Len(DigitRun(Tail(str))))
               THEN <<sep>> ELSE <<>>)
           \o currencyReplaceGroup(Tail(str), sep, spacing)

formatCurrency(value, o) ==
    IF value = <<>> THEN <<>>
    ELSE LET result(addNegation, hasDecimalPart, beforeDecimal, afterDecimal) ==
                 (IF addNegation THEN <<"-">> ELSE <<>>) \o o.prefix
                   \o beforeDecimal
                   \o (IF hasDecimalPart
                       THEN (IF o.decimalSeparator = "" THEN <<>> ELSE <<o.decimalSeparator>>)
                              \o afterDecimal
                       ELSE <<>>)
                   \o o.suffix
             grouped(addNegation, hasDecimalPart, beforeDecimal, afterDecimal) ==
                 result(addNegation, hasDecimalPart,
                        IF ~falsySep(o.thousandSeparator)
                        THEN currencyReplaceGroup(
                                 beforeDecimal,
                                 IF o.thousandSeparator = TSepTrue THEN ","
                                 ELSE o.thousandSeparator,
                                 o.thousandSpacing)
                        ELSE beforeDecimal,
                        IF o.decimalScale # NoScale
                        THEN limitToScale(afterDecimal, o.decimalScale, o.fixedDecimalScale)
                        ELSE afterDecimal)
             split(addNegation, numStr, parts) ==
                 grouped(addNegation,
                         \/ IndexOf(numStr, <<".">>, 0) # -1
                         \/ (/\ o.decimalScale # NoScale /\ o.decimalScale # 0
                             /\ o.fixedDecimalScale),
                         IF parts[1] = <<>> THEN <<"0">> ELSE parts[1],
                         IF Len(parts) >= 2 THEN parts[2] ELSE <<>>)
             rounded(addNegation, numStr) == split(addNegation, numStr, Split(numStr, "."))
             scaled(addNegation, numStr) ==
                 rounded(addNegation,
                         IF o.decimalScale # NoScale
                         THEN roundToPrecision(numStr, o.decimalScale, o.fixedDecimalScale)
                         ELSE numStr)
             oneDecimal(addNegation, numStr, decimalIndex) ==
                 scaled(addNegation,
                        IF decimalIndex # -1
                        THEN Substring(numStr, 0, decimalIndex + 1)
                               \o RemoveChar(Substring(numStr, decimalIndex + 1, Len(numStr)),
                                             ".")
                        ELSE numStr)
             cleaned(addNegation, numStr) ==
                 oneDecimal(addNegation, numStr, IndexOf(numStr, <<".">>, 0))
         IN  cleaned(Head(value) = "-" /\ o.allowNegative,
                     KeepIn(IF Head(value) = "-" THEN Tail(value) ELSE value,
                            Digits \cup {"."}))

parseCurrency(formattedValue, o) ==
    IF formattedValue = <<>>
    THEN [value |-> <<>>, floatValue |-> NaN, formattedValue |-> <<>>]
    ELSE LET result(value) ==
                 [value |-> value, floatValue |-> OrNaN(parseFloat(value)),
                  formattedValue |-> formattedValue]
             signed(isNegative, v) == result(IF isNegative THEN <<"-">> \o v ELSE v)
             ungrouped(isNegative, v) ==
                 signed(isNegative,
                        KeepIn(IF o.decimalSeparator # "."
                               THEN ReplaceFirst(v, o.decimalSeparator, <<".">>) ELSE v,
                               Digits \cup {"."}))
             noSuffix(isNegative, v, tSep) ==
                 ungrouped(isNegative, IF tSep # "" THEN RemoveChar(v, tSep) ELSE v)
             noPrefix(isNegative, v) ==
                 noSuffix(isNegative,
                          IF /\ o.suffix # <<>>
                             /\ OccursAt(v, o.suffix, Len(v) - Len(o.suffix))
                          THEN Substring(v, 0, Len(v) - Len(o.suffix)) ELSE v,
                          IF o.thousandSeparator \in {TSepTrue, TSepFalse} THEN ","
                          ELSE o.thousandSeparator)
             unsigned(isNegative, v) ==
                 noPrefix(isNegative,
                          IF o.prefix # <<>> /\ OccursAt(v, o.prefix, 0)
                          THEN Substring(v, Len(o.prefix), Len(v)) ELSE v)
         IN  unsigned(Head(formattedValue) = "-",
                      IF Head(formattedValue) = "-" THEN Tail(formattedValue)
                      ELSE formattedValue)

(***************************************************************************)
(* useCaretManagement: st is the component's state {value, numAsString}.   *)
(***************************************************************************)
correctCaretPositionNumeric(c, value, caretPos) ==
    LET hasNegation == CharAt(value, 0) = "-"
    IN  Min(Max(caretPos, Len(c.prefix) + (IF hasNegation THEN 1 ELSE 0)),
            Len(value) - Len(c.suffix))

RECURSIVE caretLeftBoundLoop(_, _, _, _)
caretLeftBoundLoop(c, value, firstHashPosition, caretLeftBound) ==
    IF /\ caretLeftBound > firstHashPosition
       /\ (CharAt(c.format, caretLeftBound) # "#" \/ ~charIsNumber(CharAt(value, caretLeftBound)))
    THEN caretLeftBoundLoop(c, value, firstHashPosition, caretLeftBound - 1)
    ELSE caretLeftBound

correctCaretPositionPattern(c, value, caretPos0, direction) ==
    IF CharAt(c.format, caretPos0) = "#" /\ charIsNumber(CharAt(value, caretPos0)) THEN caretPos0
    ELSE IF CharAt(c.format, caretPos0 - 1) = "#" /\ charIsNumber(CharAt(value, caretPos0 - 1))
    THEN caretPos0
    ELSE LET bounded(firstHashPosition, caretPos, caretRightBound, caretLeftBound) ==
                 IF \/ ~charIsNumber(CharAt(value, caretRightBound))
                    \/ (direction = "left" /\ caretPos # firstHashPosition)
                    \/ caretPos - caretLeftBound < caretRightBound - caretPos
                 THEN caretLeftBound + 1 ELSE caretRightBound
             right(firstHashPosition, caretPos, nextPos) ==
                 bounded(firstHashPosition, caretPos,
                         caretPos + (IF nextPos = -1 THEN 0 ELSE nextPos),
                         caretLeftBoundLoop(c, value, firstHashPosition, caretPos))
             clamped(firstHashPosition, caretPos) ==
                 right(firstHashPosition, caretPos,
                       IndexOf(Substring(c.format, caretPos, Len(c.format)), <<"#">>, 0))
             hashes(firstHashPosition, lastHashPosition) ==
                 clamped(firstHashPosition,
                         Min(Max(caretPos0, firstHashPosition), lastHashPosition + 1))
         IN  hashes(IndexOf(c.format, <<"#">>, 0), LastIndexOf(c.format, <<"#">>))

correctCaretPosition(c, value, caretPos, direction) ==
    IF ~hasFormat(c) THEN correctCaretPositionNumeric(c, value, caretPos)
    ELSE correctCaretPositionPattern(c, value, caretPos, direction)

\* while (currentInputChar !== formattedValue[j] && j < formattedValue.length) j++
RECURSIVE advanceTo(_, _, _)
advanceTo(formattedValue, ch, j) ==
    IF j < Len(formattedValue) /\ ch # formattedValue[j + 1]
    THEN advanceTo(formattedValue, ch, j + 1) ELSE j

\* The for loop of getCaretPosition: the index j reached in formattedValue.
RECURSIVE caretLoop(_, _, _, _, _, _)
caretLoop(c, inputValue, formattedValue, caretPos, i, j) ==
    IF i >= caretPos THEN j
    ELSE LET step(numRegex, currentInputChar, currentFormatChar) ==
                 caretLoop(c, inputValue, formattedValue, caretPos, i + 1,
                     IF \/ /\ currentInputChar \notin numRegex
                           /\ currentInputChar # currentFormatChar
                        \/ /\ currentInputChar = "0"
                           /\ currentFormatChar \in numRegex
                           /\ currentFormatChar # "0"
                           /\ Len(KeepIn(inputValue, numRegex))
                                # Len(KeepIn(formattedValue, numRegex))
                     THEN j
                     ELSE advanceTo(formattedValue, currentInputChar, j) + 1)
         IN  step(getNumberRegex(c, FALSE), CharAt(inputValue, i), CharAt(formattedValue, j))

\* Mutant: the caret keeps the index it had in the typed text.
getCaretPositionOfInput(c, st, inputValue, formattedValue, caretPos) ==
    correctCaretPosition(c, formattedValue, caretPos, "")

getCaretPosition(c, st, inputValue, formattedValue, caretPos) ==
    LET j0 == caretLoop(c, inputValue, formattedValue, caretPos, 0, 0)
        j1 == IF hasFormat(c) /\ st.value = <<>> THEN Len(formattedValue) ELSE j0
    IN  correctCaretPosition(c, formattedValue, j1, "")

isCharacterAFormat(c, caretPos, value) ==
    \/ (hasFormat(c) /\ CharAt(c.format, caretPos) # "#")
    \/ /\ ~hasFormat(c)
       /\ \/ caretPos < Len(c.prefix)
          \/ caretPos >= Len(value) - Len(c.suffix)
          \/ /\ c.decimalScale # NoScale /\ c.decimalScale # 0
             /\ c.fixedDecimalScale
             /\ CharAt(value, caretPos) = c.decimalSeparator

checkIfFormatGotDeleted(c, start, end, value) ==
    \E i \in start..(end - 1) : isCharacterAFormat(c, i, value)

correctInputValue(c, st, caretPos, lastValue, value0) ==
    IF Len(value0) >= Len(lastValue) \/ Len(value0) = 0 THEN value0
    ELSE LET falsy(x) == x.nan \/ isZero(x)
             corrected(value, numericString, sd) ==
                 IF /\ ~hasFormat(c)
                    /\ Len(numericString) < Len(st.numAsString)
                    /\ sd.beforeDecimal = <<>>
                    /\ falsy(parseFloat(sd.afterDecimal))
                 THEN (IF sd.addNegation THEN <<"-">> ELSE <<>>)
                 ELSE value
             numeric(value, numericString) ==
                 corrected(value, numericString, splitDecimal(c, numericString))
             checked(value) == numeric(value, removeFormatting(c, value))
             deleted(diff) ==
                 checked(IF checkIfFormatGotDeleted(c, caretPos, caretPos + Len(diff), lastValue)
                         THEN lastValue ELSE value0)
             located(lastValueParts, deletedIndex) ==
                 deleted(IF deletedIndex # -1
                         THEN Substring(lastValueParts[2], 0, deletedIndex) ELSE <<>>)
             halves(lastValueParts, newValueParts) ==
                 located(lastValueParts, LastIndexOf(lastValueParts[2], newValueParts[2]))
         IN  halves(splitString(lastValue, caretPos), splitString(value0, caretPos))

(***************************************************************************)
(* The props' defaults and validateProps (index.tsx).                      *)
(***************************************************************************)
noMask == [isArray |-> FALSE, chars |-> <<" ">>]

\* The defaults of the destructured props / options.
defaults ==
    [decimalSeparator |-> ".", thousandSeparator |-> ",", thousandSpacing |-> "3",
     decimalScale |-> NoScale, fixedDecimalScale |-> FALSE, format |-> <<>>,
     mask |-> noMask, prefix |-> <<>>, suffix |-> <<>>,
     allowNegative |-> TRUE, allowEmptyFormatting |-> FALSE]

\* validateProps' first check: the separators collide.
separatorsCollide(c) == getSeparators(c).decimalSeparator = getSeparators(c).thousandSeparator

(***************************************************************************)
(* The CurrencyFormat component (index.tsx).                               *)
(*   props: c (the formatting props), value and defaultValue               *)
(*   ([kind, s]: undefined, a string, or a number with its toString()),    *)
(*   isNumericString, isAllowed, disabled, readOnly, and rev, the identity *)
(*   of the props object (a new object on every render by the parent).     *)
(***************************************************************************)
undefinedValue == [kind |-> "undefined", s |-> <<>>]

StringValue(s) == [kind |-> "string", s |-> s]

noProps ==
    [c |-> defaults, value |-> undefinedValue, defaultValue |-> undefinedValue,
     isNumericString |-> FALSE, isAllowed |-> "none", disabled |-> FALSE,
     readOnly |-> FALSE, rev |-> 0]

noValueObj == [formattedValue |-> <<>>, value |-> <<>>, floatValue |-> NaN]

noEdit == [from |-> 0, to |-> 0, ins |-> <<>>]

\* The isAllowed callbacks of the callers: absent, floatValue <= 100, or
\* floatValue !== 0.
isAllowed(p, valueObj) ==
    /\ p.isAllowed = "le100" =>
          LET x == valueObj.floatValue
          IN  ~x.nan /\ (x.neg \/ x.int < 100 \/ (x.int = 100 /\ x.frac = <<>>))
    /\ p.isAllowed = "nonZero" => ~isZero(valueObj.floatValue)

\* validateProps' second check: the mask holds a digit.
maskHasDigit(c) ==
    /\ (c.mask.isArray \/ c.mask.chars # <<>>)
    /\ \E i \in 1..Len(c.mask.chars) : c.mask.chars[i] \in Digits

\* Mutant: validateProps never throws.
validatePropsAccepts(c) == FALSE

\* TRUE when validateProps throws.
validateProps(c) == separatorsCollide(c) \/ maskHasDigit(c)

formatValueProp(p) ==
    LET formatted(isNumericString, value) ==
            IF isNumericString THEN formatNumString(p.c, value) ELSE formatInput(p.c, value)
        rounded(isNumericString, value) ==
            formatted(isNumericString,
                      IF isNumericString /\ ~hasFormat(p.c) /\ p.c.decimalScale # NoScale
                      THEN roundToPrecision(value, p.c.decimalScale, p.c.fixedDecimalScale)
                      ELSE value)
        given(v) ==
            IF v.kind = "undefined" THEN <<>>
            ELSE rounded(p.isNumericString \/ v.kind = "number", v.s)
    IN  given(IF p.value.kind # "undefined" THEN p.value ELSE p.defaultValue)

getInitialState(p) ==
    LET initial(formattedValue) ==
            [value |-> formattedValue, numAsString |-> removeFormatting(p.c, formattedValue)]
    IN  initial(formatValueProp(p))

applyLeadingZeroFix(numStr) == fixLeadingZero(numStr)

\* What a handler or an effect did: the state it left, the text it wrote to
\* the input, the caret it set, and the onValueChange call if it made one.
noResult(st) ==
    [state |-> st, corrected |-> <<>>, written |-> st.value, caretPos |-> 0,
     rejected |-> FALSE, notified |-> FALSE, valueObj |-> noValueObj,
     source |-> "", formatted |-> FALSE]

\* Mutant: a rejected edit is still written to the input and the state.
handleChangeKeepsRejected(p, st, inputValue, caret) ==
    LET result(corrected, formattedValue, numAsString, valueObj) ==
            [state     |-> IF formattedValue # st.value
                           THEN [value |-> formattedValue, numAsString |-> numAsString]
                           ELSE st,
             corrected |-> corrected,
             written   |-> formattedValue,
             caretPos  |-> getCaretPosition(p.c, st, corrected, formattedValue, caret),
             rejected  |-> p.isAllowed # "none" /\ ~isAllowed(p, valueObj),
             notified  |-> formattedValue # st.value,
             valueObj  |-> valueObj,
             source    |-> IF formattedValue # st.value THEN "event" ELSE "",
             formatted |-> TRUE]
        parsed(corrected, formattedValue, numAsString) ==
            result(corrected, formattedValue, numAsString,
                   [formattedValue |-> formattedValue, value |-> numAsString,
                    floatValue |-> parseFloat(numAsString)])
        reformatted(corrected, formattedValue) ==
            parsed(corrected, formattedValue, removeFormatting(p.c, formattedValue))
        edited(corrected) == reformatted(corrected, formatInput(p.c, corrected))
    IN  edited(correctInputValue(p.c, st, caret, st.value, inputValue))

\* handleChange with el.value = inputValue and the caret at caret.
handleChange(p, st, inputValue, caret) ==
    IF p.disabled \/ p.readOnly THEN [noResult(st) EXCEPT !.written = inputValue]
    ELSE
    LET lastValue == st.value
        result(corrected, formattedValue, numAsString, valueObj, rejected) ==
            [state     |-> IF formattedValue # lastValue
                           THEN [value |-> formattedValue, numAsString |-> numAsString]
                           ELSE st,
             corrected |-> corrected,
             written   |-> formattedValue,
             caretPos  |-> getCaretPosition(p.c, st, corrected, formattedValue, caret),
             rejected  |-> rejected,
             notified  |-> formattedValue # lastValue,
             valueObj  |-> valueObj,
             source    |-> IF formattedValue # lastValue THEN "event" ELSE "",
             formatted |-> TRUE]
        validated(corrected, formattedValue, numAsString, valueObj, rejected) ==
            result(corrected, IF rejected THEN lastValue ELSE formattedValue,
                   numAsString, valueObj, rejected)
        parsed(corrected, formattedValue, numAsString, valueObj) ==
            validated(corrected, formattedValue, numAsString, valueObj,
                      p.isAllowed # "none" /\ ~isAllowed(p, valueObj))
        reformatted(corrected, formattedValue, numAsString) ==
            parsed(corrected, formattedValue, numAsString,
                   [formattedValue |-> formattedValue, value |-> numAsString,
                    floatValue |-> parseFloat(numAsString)])
        edited(corrected, formattedValue) ==
            reformatted(corrected, formattedValue, removeFormatting(p.c, formattedValue))
        typed(corrected) == edited(corrected, formatInput(p.c, corrected))
    IN  typed(correctInputValue(p.c, st, caret, lastValue, inputValue))

handleBlur(p, st) ==
    IF hasFormat(p.c) THEN noResult(st)
    ELSE
    LET result(numAsString, formattedValue, changed) ==
            [noResult(st) EXCEPT
               !.state    = IF changed
                            THEN [value |-> formattedValue, numAsString |-> numAsString]
                            ELSE st,
               !.notified = changed,
               !.valueObj = IF changed
                            THEN [formattedValue |-> formattedValue, value |-> numAsString,
                                  floatValue |-> parseFloat(numAsString)]
                            ELSE noValueObj,
               !.source   = IF changed THEN "event" ELSE "",
               !.formatted = TRUE]
        fixed(numAsString, formattedValue) ==
            result(numAsString, formattedValue, formattedValue # st.value)
        blurred(numAsString) == fixed(numAsString, formatNumString(p.c, numAsString))
    IN  blurred(applyLeadingZeroFix(st.numAsString))

\* handleKeyDown with key = "Enter".
handleKeyDownEnter(p, st) ==
    IF hasFormat(p.c) \/ p.readOnly \/ p.disabled THEN noResult(st)
    ELSE
    LET result(numAsString, formattedValue, changed) ==
            [noResult(st) EXCEPT
               !.state    = IF changed
                            THEN [value |-> formattedValue, numAsString |-> numAsString]
                            ELSE st,
               !.written  = IF changed THEN formattedValue ELSE st.value,
               !.notified = changed,
               !.valueObj = IF changed
                            THEN [formattedValue |-> formattedValue, value |-> numAsString,
                                  floatValue |-> parseFloat(numAsString)]
                            ELSE noValueObj,
               !.source   = IF changed THEN "event" ELSE "",
               !.formatted = TRUE]
        fixed(numAsString, formattedValue) ==
            result(numAsString, formattedValue, formattedValue # st.value)
        entered(numAsString) == fixed(numAsString, formatNumString(p.c, numAsString))
    IN  entered(applyLeadingZeroFix(st.numAsString))

\* The deps of the validateProps effect changed between two renders.
validatePropsChanged(p, q) ==
    <<p.c.decimalSeparator, p.c.thousandSeparator, p.c.thousandSpacing, p.c.mask>>
        # <<q.c.decimalSeparator, q.c.thousandSeparator, q.c.thousandSpacing, q.c.mask>>

\* Mutant: the notification of a prop update is tagged as a user event.
propsChangeEffectAsEvent(p, st) ==
    LET isUncontrolled == p.value.kind = "undefined" /\ p.defaultValue.kind # "undefined"
        lastNumStr     == st.numAsString
        reformatted(formattedValue) ==
            [noResult(st) EXCEPT
               !.state = IF formattedValue # st.value
                         THEN [value |-> formattedValue, numAsString |-> lastNumStr]
                         ELSE st,
               !.formatted = TRUE]
        result(formattedValue, newNumAsString, changed) ==
            [noResult(st) EXCEPT
               !.state    = IF changed
                            THEN [value |-> formattedValue, numAsString |-> newNumAsString]
                            ELSE st,
               !.notified = changed,
               !.valueObj = IF changed
                            THEN [formattedValue |-> formattedValue,
                                  value |-> newNumAsString,
                                  floatValue |-> parseFloat(newNumAsString)]
                            ELSE noValueObj,
               !.source   = IF changed THEN "event" ELSE "",
               !.formatted = TRUE]
        updated(formattedValue) ==
            result(formattedValue, removeFormatting(p.c, formattedValue),
                   formattedValue # st.value)
    IN  IF isUncontrolled /\ p.value.kind = "undefined"
        THEN reformatted(formatNumString(p.c, lastNumStr))
        ELSE updated(IF p.value.kind = "undefined"
                     THEN formatNumString(p.c, lastNumStr)
                     ELSE formatValueProp(p))

\* The props-change effect, run with the new props p (prevProps !== props).
propsChangeEffect(p, st) ==
    LET isUncontrolled == p.value.kind = "undefined" /\ p.defaultValue.kind # "undefined"
        lastNumStr     == st.numAsString
        reformatted(formattedValue) ==
            [noResult(st) EXCEPT
               !.state = IF formattedValue # st.value
                         THEN [value |-> formattedValue, numAsString |-> lastNumStr]
                         ELSE st,
               !.formatted = TRUE]
        result(formattedValue, newNumAsString, changed) ==
            [noResult(st) EXCEPT
               !.state    = IF changed
                            THEN [value |-> formattedValue, numAsString |-> newNumAsString]
                            ELSE st,
               !.notified = changed,
               !.valueObj = IF changed
                            THEN [formattedValue |-> formattedValue,
                                  value |-> newNumAsString,
                                  floatValue |-> parseFloat(newNumAsString)]
                            ELSE noValueObj,
               !.source   = IF changed THEN "prop" ELSE "",
               !.formatted = TRUE]
        updated(formattedValue) ==
            result(formattedValue, removeFormatting(p.c, formattedValue),
                   formattedValue # st.value)
    IN  IF isUncontrolled /\ p.value.kind = "undefined"
        THEN reformatted(formatNumString(p.c, lastNumStr))
        ELSE updated(IF p.value.kind = "undefined"
                     THEN formatNumString(p.c, lastNumStr)
                     ELSE formatValueProp(p))

(***************************************************************************)
(* State.                                                                  *)
(*   arg, ret   one application of the exposed pure functions: the input   *)
(*              and options, and what the functions returned;              *)
(*   props      the props of the mounted CurrencyFormat;                   *)
(*   state      its React state {value, numAsString};                      *)
(*   status     "unmounted", "mounted", or "error" once a render or effect *)
(*              has thrown;                                                *)
(*   out        what the last handler or effect did;                       *)
(*   isComposingRef  the ref set between compositionstart and              *)
(*              compositionend;                                            *)
(*   el         the input element: its text and its (collapsed) selection; *)
(*   timers     the setTimeout callbacks not yet run, oldest first;        *)
(*   valueAsString  the state of a useCurrencyFormat hook in the parent.   *)
(***************************************************************************)
VARIABLES arg, ret, props, state, status, out, isComposingRef, el, timers, valueAsString

vars == <<arg, ret, props, state, status, out, isComposingRef, el, timers, valueAsString>>

component == <<props, state, status, out, isComposingRef, el, timers, valueAsString>>

functions == <<arg, ret>>

(***************************************************************************)
(* Bounded inputs.                                                         *)
(***************************************************************************)
\* All strings over an alphabet with lo..hi characters.
Strings(alphabet, lo, hi) == UNION {[1..n -> alphabet] : n \in lo..hi}

MaxIntDigits == 4

MaxFracDigits == 2

\* Canonical raw numeric strings: an optional "-", digits, and optionally a "."
\* followed by digits.
Fractions == {<<>>} \cup {<<".">> \o f : f \in Strings({"0", "5"}, 1, MaxFracDigits)}

RawValues ==
    {sign \o int \o frac :
        sign \in {<<>>, <<"-">>}, int \in Strings({"0", "1"}, 1, MaxIntDigits), frac \in Fractions}

SeparatorOptions ==
    { [d |-> ".", t |-> ",",       s |-> "3"],
      [d |-> ".", t |-> TSepTrue,  s |-> "2s"],
      [d |-> ",", t |-> ".",       s |-> "3"],
      [d |-> ",", t |-> TSepFalse, s |-> "3"],
      [d |-> ".", t |-> " ",       s |-> "4"],
      [d |-> ".", t |-> ".",       s |-> "3"],
      [d |-> ",", t |-> TSepTrue,  s |-> "3"] }

ScaleOptions ==
    { [n |-> NoScale, f |-> FALSE], [n |-> 2, f |-> FALSE], [n |-> 2, f |-> TRUE], [n |-> 0, f |-> FALSE] }

AffixOptions == { [p |-> <<"$">>, s |-> <<>>], [p |-> <<>>, s |-> <<"%">>] }

NumericConfigs ==
    { [defaults EXCEPT !.decimalSeparator = sep.d, !.thousandSeparator = sep.t,
                       !.thousandSpacing = sep.s, !.decimalScale = sc.n,
                       !.fixedDecimalScale = sc.f, !.prefix = af.p, !.suffix = af.s,
                       !.allowNegative = neg] :
        sep \in SeparatorOptions, sc \in ScaleOptions, af \in AffixOptions, neg \in BOOLEAN }

(***************************************************************************)
(* The pure functions, applied once to an input drawn from the bounded     *)
(* sets.                                                                   *)
(***************************************************************************)
noRet == [fn |-> "none", threw |-> FALSE, formatted |-> <<>>, value |-> <<>>,
          floatValue |-> NaN, reformatted |-> <<>>]

unmounted == [value |-> <<>>, numAsString |-> <<>>]

noOut ==
    [ev |-> "none", prev |-> unmounted, edit |-> noEdit, input |-> <<>>, caret |-> 0,
     corrected |-> <<>>, written |-> <<>>, caretPos |-> 0, rejected |-> FALSE,
     notified |-> FALSE, valueObj |-> noValueObj, source |-> "", threw |-> FALSE,
     formattedWith |-> {}]

IdleComponent ==
    /\ props = noProps
    /\ state = unmounted
    /\ status = "unmounted"
    /\ out = noOut
    /\ isComposingRef = FALSE
    /\ el = [value |-> <<>>, selectionStart |-> 0]
    /\ timers = <<>>
    /\ valueAsString = <<>>

\* The values of the documented examples: 1234.5, -1234.56, and a value with
\* more fractional digits than any scale in use.
ExampleValues ==
    { <<"1", "2", "3", "4", ".", "5">>,
      <<"-", "1", "2", "3", "4", ".", "5", "6">>,
      <<"1", ".", "5", "5", "5">> }

InitFmt ==
    /\ arg \in [x : RawValues \cup ExampleValues, c : NumericConfigs]
    /\ ret = noRet
    /\ IdleComponent

\* The component's formatter and parser on a raw value.  validateProps throws
\* on colliding separators before the component formats anything.
ApplyComponent ==
    /\ ret.fn = "none"
    /\ ~separatorsCollide(arg.c)
    /\ \E formatted \in {formatNumString(arg.c, arg.x)} :
       \E value \in {removeFormatting(arg.c, formatted)} :
          ret' = [fn |-> "component", threw |-> FALSE, formatted |-> formatted,
                  value |-> value, floatValue |-> parseFloat(value),
                  reformatted |-> formatInput(arg.c, formatted)]
    /\ UNCHANGED <<arg, component>>

\* formatCurrency, parseCurrency of its result, and formatCurrency again.
ApplyStandalone ==
    /\ ret.fn = "none"
    /\ \E formatted \in {formatCurrency(arg.x, arg.c)} :
       \E parsed \in {parseCurrency(formatted, arg.c)} :
          ret' = [fn |-> "standalone", threw |-> FALSE, formatted |-> formatted,
                  value |-> parsed.value, floatValue |-> parsed.floatValue,
                  reformatted |-> formatCurrency(parsed.value, arg.c)]
    /\ UNCHANGED <<arg, component>>

\* The keys the user presses for the number x: its characters, with the
\* decimal separator of the configuration for the decimal point.
TypedText(x, c) == ReplaceFirst(x, ".", <<c.decimalSeparator>>)

\* handleChange of an empty, mounted input in which the number x was entered.
TypedInto(x, c) ==
    handleChange([noProps EXCEPT !.c = c], getInitialState([noProps EXCEPT !.c = c]),
                 TypedText(x, c), Len(x))

ApplyTyped ==
    /\ ret.fn = "none"
    /\ ~validateProps(arg.c)
    /\ \E r \in {TypedInto(arg.x, arg.c)} :
          ret' = [fn |-> "typed", threw |-> FALSE, formatted |-> r.written,
                  value |-> r.state.numAsString, floatValue |-> r.valueObj.floatValue,
                  reformatted |-> formatInput(arg.c, r.written)]
    /\ UNCHANGED <<arg, component>>

NextFmt == ApplyComponent \/ ApplyStandalone \/ ApplyTyped

SpecFmt == InitFmt /\ [][NextFmt]_vars

(***************************************************************************)
(* Grouping alone: formatThousand and formatCurrency on a string of digits.*)
(***************************************************************************)
MaxGroupDigits == 7

GroupDigits ==
    Strings({"1", "2"}, 1, MaxGroupDigits) \cup {<<"1", "2", "3", "4", "5", "6", "7">>}

GroupConfigs ==
    { [defaults EXCEPT !.thousandSeparator = sep, !.thousandSpacing = sp] :
        sep \in {",", " "}, sp \in {"2", "2s", "3", "4"} }

InitGroup ==
    /\ arg \in [x : GroupDigits, c : GroupConfigs]
    /\ ret = noRet
    /\ IdleComponent

\* formatted: the component's formatThousand; reformatted: formatCurrency of
\* the same digits under the same options.
ApplyGroup ==
    /\ ret.fn = "none"
    /\ ret' = [noRet EXCEPT
                 !.fn = "group",
                 !.formatted = formatThousand(arg.x, getSeparators(arg.c).thousandSeparator,
                                              getSeparators(arg.c).thousandSpacing),
                 !.reformatted = formatCurrency(arg.x, arg.c)]
    /\ UNCHANGED <<arg, component>>

NextGroup == ApplyGroup

SpecGroup == InitGroup /\ [][NextGroup]_vars

(***************************************************************************)
(* The mounted component: mount, then change, blur, Enter-key and          *)
(* prop-update events.  The text of the input is state.value between two   *)
(* events (the render writes it), so an edit is applied to state.value.    *)
(***************************************************************************)
MaxTextLen == 5

MaxPropUpdates == 1

cUSD == [defaults EXCEPT !.prefix = <<"$">>]

cFixed == [cUSD EXCEPT !.decimalScale = 2, !.fixedDecimalScale = TRUE,
                       !.allowEmptyFormatting = TRUE]

cPct == [defaults EXCEPT !.suffix = <<"%">>, !.thousandSeparator = TSepFalse,
                         !.decimalScale = 2]

cPattern == [defaults EXCEPT !.format = <<"#", "#", "-", "#", "#">>,
                             !.mask = [isArray |-> FALSE, chars |-> <<"_">>]]

digitMask == [isArray |-> FALSE, chars |-> <<"1">>]

digitMaskArray == [isArray |-> TRUE, chars |-> <<"_", "2">>]

ValidConfigs == {cUSD, cFixed, cPct, cPattern}

InvalidConfigs ==
    { [cUSD EXCEPT !.decimalSeparator = ","],
      [cUSD EXCEPT !.decimalSeparator = ",", !.thousandSeparator = TSepTrue],
      [cPattern EXCEPT !.mask = digitMask],
      [cPattern EXCEPT !.mask = digitMaskArray] }

ValueProps ==
    { [value |-> undefinedValue, defaultValue |-> undefinedValue, isNumericString |-> FALSE],
      [value |-> StringValue(<<"1", "5">>), defaultValue |-> undefinedValue,
       isNumericString |-> TRUE],
      [value |-> undefinedValue, defaultValue |-> StringValue(<<"-", "1", ".", "5">>),
       isNumericString |-> FALSE] }

cappedUSD ==
    [noProps EXCEPT !.c = cUSD, !.value = StringValue(<<"1", "5">>),
                    !.isNumericString = TRUE, !.isAllowed = "le100"]

MountProps ==
    { [noProps EXCEPT !.c = c, !.value = v.value, !.defaultValue = v.defaultValue,
                      !.isNumericString = v.isNumericString] :
        c \in ValidConfigs \cup InvalidConfigs, v \in ValueProps }
      \cup {cappedUSD}

TypedChars == {"5", "-", "."}

\* What the parent may pass on a re-render: the same props, another scale,
\* another decimal separator, a mask, or another value.
NewProps(p) ==
    { [q EXCEPT !.rev = p.rev + 1] :
        q \in {p,
               [p EXCEPT !.c.decimalScale = 0, !.c.fixedDecimalScale = FALSE],
               [p EXCEPT !.c.decimalScale = 2, !.c.fixedDecimalScale = TRUE],
               [p EXCEPT !.c.decimalSeparator = ","],
               [p EXCEPT !.c.mask = digitMask],
               [p EXCEPT !.value = StringValue(<<"5">>)]} }

noArg == [x |-> <<>>, c |-> defaults]

Init ==
    /\ arg = noArg
    /\ ret = noRet
    /\ IdleComponent

\* The first render: the useState initializer runs validateProps and then
\* getInitialState.
Mount ==
    /\ status = "unmounted"
    /\ \E p \in MountProps :
        /\ props' = p
        /\ IF validateProps(p.c)
           THEN /\ status' = "error"
                /\ state' = state
                /\ out' = [noOut EXCEPT !.ev = "mount", !.threw = TRUE]
           ELSE /\ status' = "mounted"
                /\ \E initial \in {getInitialState(p)} :
                      /\ state' = initial
                      /\ out' = [noOut EXCEPT !.ev = "mount", !.written = initial.value,
                                              !.formattedWith = {p.c}]
    /\ UNCHANGED <<functions, el, timers, valueAsString, isComposingRef>>

noInput == [edit |-> noEdit, input |-> <<>>, caret |-> 0]

\* The state and the record of an event ev that ran with the formatting
\* props c on the input e and did r.
Done(ev, c, e, r) ==
    /\ state' = r.state
    /\ out' = [ev |-> ev, prev |-> state, edit |-> e.edit, input |-> e.input,
               caret |-> e.caret, corrected |-> r.corrected, written |-> r.written,
               caretPos |-> r.caretPos, rejected |-> r.rejected, notified |-> r.notified,
               valueObj |-> r.valueObj, source |-> r.source, threw |-> FALSE,
               formattedWith |-> IF r.formatted THEN {c} ELSE {}]

\* The user replaces the characters from..to-1 of the text by ins, which
\* leaves the caret after ins, and the input fires its change event.
\* handleChange returns at once while a composition is going on.
ChangeStep(from, to, ins) ==
    LET inputValue == Substring(state.value, 0, from) \o ins
                        \o Substring(state.value, to, Len(state.value))
        caret      == from + Len(ins)
    IN  /\ status = "mounted"
        /\ out.ev = "none"
        /\ inputValue # state.value
        /\ \E r \in {IF isComposingRef
                       THEN [noResult(state) EXCEPT !.written = inputValue]
                       ELSE handleChange(props, state, inputValue, caret)} :
              Done("change", props.c,
                   [edit |-> [from |-> from, to |-> to, ins |-> ins],
                    input |-> inputValue, caret |-> caret], r)
        /\ UNCHANGED <<props, status, functions, el, timers, valueAsString, isComposingRef>>

\* Typing a character at the caret, Backspace / Delete of one character.
Change ==
    \E from \in 0..Len(state.value) :
        \/ /\ Len(state.value) < MaxTextLen
           /\ \E ch \in TypedChars : ChangeStep(from, from, <<ch>>)
        \/ from < Len(state.value) /\ ChangeStep(from, from + 1, <<>>)

Blur ==
    /\ status = "mounted"
    /\ out.ev = "none"
    /\ \E r \in {handleBlur(props, state)} : Done("blur", props.c, noInput, r)
    /\ UNCHANGED <<props, status, functions, el, timers, valueAsString, isComposingRef>>

KeyDownEnter ==
    /\ status = "mounted"
    /\ out.ev = "none"
    /\ \E r \in {handleKeyDownEnter(props, state)} : Done("enter", props.c, noInput, r)
    /\ UNCHANGED <<props, status, functions, el, timers, valueAsString, isComposingRef>>

\* The parent renders again with a new props object: the render formats
\* nothing, then the effects run in the order of their declaration, the
\* validateProps effect when its deps changed, and a throw skips the rest.
PropUpdate ==
    /\ status = "mounted"
    /\ out.ev = "none"
    /\ props.rev < MaxPropUpdates
    /\ \E p \in NewProps(props) :
        /\ props' = p
        /\ IF validatePropsChanged(props, p) /\ validateProps(p.c)
           THEN /\ status' = "error"
                /\ state' = state
                /\ out' = [noOut EXCEPT !.ev = "props", !.prev = state,
                                        !.written = state.value, !.threw = TRUE]
           ELSE /\ status' = "mounted"
                /\ \E r \in {propsChangeEffect(p, state)} :
                      Done("props", p.c, noInput, r)
    /\ UNCHANGED <<functions, el, timers, valueAsString, isComposingRef>>

\* React commits the render that follows a handler or an effect: the input
\* shows state.value, and the component waits for the next event.
Render ==
    /\ status = "mounted"
    /\ out.ev # "none"
    /\ out' = noOut
    /\ UNCHANGED <<props, state, status, functions, el, timers, valueAsString, isComposingRef>>

Next == Mount \/ Render \/ Change \/ Blur \/ KeyDownEnter \/ PropUpdate

Spec == Init /\ [][Next]_vars

(***************************************************************************)
(* One typed digit in a mounted, grouped and prefixed value.               *)
(***************************************************************************)
TypeConfigs ==
    { [cUSD EXCEPT !.thousandSpacing = sp, !.decimalScale = sc.n, !.fixedDecimalScale = sc.f] :
        sp \in {"3", "2s"}, sc \in {[n |-> NoScale, f |-> FALSE], [n |-> 2, f |-> TRUE]} }

TypeValues ==
    { sign \o int \o frac :
        sign \in {<<>>, <<"-">>},
        int \in Strings({"1", "2"}, 1, MaxIntDigits) \cup {<<"1", "2", "3", "4">>},
        frac \in {<<>>, <<".", "5">>} }

TypeProps ==
    { [noProps EXCEPT !.c = c, !.value = StringValue(v), !.isNumericString = TRUE] :
        c \in TypeConfigs, v \in TypeValues }

TypedDigits == {"0", "5"}

InitType ==
    /\ arg = noArg
    /\ ret = noRet
    /\ props \in TypeProps
    /\ state = getInitialState(props)
    /\ status = "mounted"
    /\ out = noOut
    /\ isComposingRef = FALSE
    /\ el = [value |-> <<>>, selectionStart |-> 0]
    /\ timers = <<>>
    /\ valueAsString = <<>>

TypeDigit ==
    /\ out.ev = "none"
    /\ \E from \in 0..Len(state.value) : \E d \in TypedDigits : ChangeStep(from, from, <<d>>)

NextType == TypeDigit

SpecType == InitType /\ [][NextType]_vars

(***************************************************************************)
(* Claims about the formatter / parser pair (SpecFmt).                     *)
(***************************************************************************)
\* The fractional digits of a raw value.
FracOf(x) ==
    LET i == IndexOf(x, <<".">>, 0)
    IN  IF i = -1 THEN <<>> ELSE Substring(x, i + 1, Len(x))

\* The fractional digits of x fit the decimal scale of c.
WithinScale(x, c) == c.decimalScale = NoScale \/ Len(FracOf(x)) <= c.decimalScale

\* The formatter neither pads x (fixed scale) nor drops its sign
\* (allowNegative false), so that the canonical form of x is x itself.
AlreadyCanonical(x, c) ==
    /\ WithinScale(x, c)
    /\ (c.decimalScale # NoScale /\ c.decimalScale > 0 /\ c.fixedDecimalScale)
          => Len(FracOf(x)) = c.decimalScale
    /\ c.allowNegative \/ Head(x) # "-"

\* C1: round trip.  For a canonical raw value x whose canonical form is x
\* itself and a configuration with distinct separators, parsing the formatted
\* text gives x back, in the component and in the standalone pair.
C1_RoundTrip ==
    (ret.fn # "none" /\ ~separatorsCollide(arg.c) /\ AlreadyCanonical(arg.x, arg.c))
        => ret.value = arg.x

\* C2: idempotence.  For a raw value x that fits the decimal scale and a
\* configuration with distinct separators, formatting the parse of the
\* formatted text reproduces the formatted text.
C2_Idempotent ==
    (ret.fn # "none" /\ ~separatorsCollide(arg.c) /\ WithinScale(arg.x, arg.c))
        => ret.reformatted = ret.formatted

\* C4: every ValueObject has floatValue = parseFloat(value), and its value is
\* the parse of its formatted text.
C4_ValueObject ==
    (ret.fn # "none" /\ ~separatorsCollide(arg.c))
        => /\ ret.floatValue = parseFloat(ret.value)
           /\ ret.value = (IF ret.fn # "standalone"
                           THEN removeFormatting(arg.c, ret.formatted)
                           ELSE parseCurrency(ret.formatted, arg.c).value)

\* C9: formatCurrency / parseCurrency called with colliding separators report
\* a configuration error instead of returning a result.
C9_StandaloneRejectsCollision ==
    (ret.fn = "standalone" /\ separatorsCollide(arg.c)) => ret.threw

(***************************************************************************)
(* Claims about grouping (SpecGroup).                                      *)
(***************************************************************************)
\* A separator belongs before the last r digits under a scheme.
GroupBoundary(spacing, r) ==
    CASE spacing = "2"  -> r % 2 = 0
      [] spacing = "2s" -> r = 3 \/ (r > 3 /\ (r - 3) % 2 = 0)
      [] spacing = "4"  -> r % 4 = 0
      [] OTHER          -> r % 3 = 0

\* The digits of x with a separator at every boundary counted from the right.
RECURSIVE Grouped(_, _, _)
Grouped(x, sep, spacing) ==
    IF x = <<>> THEN <<>>
    ELSE <<Head(x)>>
           \o (IF Len(x) > 1 /\ GroupBoundary(spacing, Len(x) - 1) THEN <<sep>> ELSE <<>>)
           \o Grouped(Tail(x), sep, spacing)

Seven == <<"1", "2", "3", "4", "5", "6", "7">>

C3_EditStateNeverDiverges ==
    status = "mounted" => state.numAsString = removeFormatting(props.c, state.value)

\* C5: validation rejection is atomic.  When isAllowed returns false for the
\* ValueObject of an edit, the text written back to the input is the text
\* before the edit, EditState is unchanged and onValueChange is not called.
C5_RejectionAtomic ==
    (out.ev = "change" /\ out.rejected) =>
        /\ out.written = out.prev.value
        /\ state = out.prev
        /\ ~out.notified

C5_Witness ==
    /\ out.ev = "change"
    /\ out.rejected
    /\ out.prev.value = <<"$", "1", "5">>
    /\ out.input = <<"$", "1", "5", "5">>
    /\ out.valueObj.floatValue = Num(FALSE, 155, <<>>)
    /\ out.written = <<"$", "1", "5">>

\* The position i of the text holds a character of a protected zone: of the
\* prefix, of the suffix, a literal of the pattern, or the decimal separator
\* when decimalScale and fixedDecimalScale are set.
Protected(c, text, i) ==
    IF hasFormat(c) THEN CharAt(c.format, i) # "#"
    ELSE LET sign        == IF CharAt(text, 0) = "-" THEN 1 ELSE 0
             suffixStart == Len(text) - Len(c.suffix)
         IN  \/ /\ i >= sign /\ i < sign + Len(c.prefix)
                /\ Substring(text, sign, sign + Len(c.prefix)) = c.prefix
             \/ /\ i >= suffixStart /\ suffixStart >= sign + Len(c.prefix)
                /\ Substring(text, suffixStart, Len(text)) = c.suffix
             \/ /\ c.decimalScale > 0
                /\ c.fixedDecimalScale
                /\ CharAt(text, i) = c.decimalSeparator

\* The last event was a deletion whose removed characters are all protected.
ProtectedDeletion ==
    /\ out.ev = "change"
    /\ out.edit.ins = <<>>
    /\ out.edit.to > out.edit.from
    /\ \A i \in out.edit.from..(out.edit.to - 1) : Protected(props.c, out.prev.value, i)

\* C6: protected-zone deletion is absorbed.  When every removed character
\* lies in a protected zone, correctInputValue returns the previous text, the
\* display text and the raw value are unchanged and onValueChange is not
\* called.
C6_ProtectedDeletionAbsorbed ==
    ProtectedDeletion =>
        /\ out.corrected = out.prev.value
        /\ out.written = out.prev.value
        /\ state = out.prev
        /\ ~out.notified

\* C8: configuration errors are raised at setup.  A mount with colliding
\* separators (thousandSeparator true counts as ",") or a mask holding a
\* digit throws before any EditState exists or any text is formatted, and a
\* prop update that brings such a configuration throws before any text is
\* formatted with it.
C8_ConfigurationErrorsAtSetup ==
    /\ (separatorsCollide(props.c) \/ maskHasDigit(props.c)) =>
          (status # "unmounted" => (status = "error" /\ out.threw))
    /\ out.threw =>
          /\ status = "error"
          /\ out.formattedWith = {}
          /\ (out.ev = "mount" => state = unmounted)
          /\ (out.ev = "props" => state = out.prev)
    /\ \A c \in out.formattedWith : ~separatorsCollide(c) /\ ~maskHasDigit(c)

C8_Witness ==
    /\ out.ev = "props"
    /\ out.threw
    /\ status = "error"
    /\ props.c.decimalSeparator = ","
    /\ props.c.thousandSeparator = ","
    /\ state.value = <<"$", "1", "5">>

C8_WitnessMount ==
    /\ out.ev = "mount"
    /\ out.threw
    /\ maskHasDigit(props.c)
    /\ props.c.mask.isArray

(***************************************************************************)
(* Claims about a typed digit (SpecType).                                  *)
(***************************************************************************)
\* The number of characters of s[0..n) that the number expression matches.
RECURSIVE CountIn(_, _, _)
CountIn(s, n, keep) ==
    IF n <= 0 \/ s = <<>> THEN 0
    ELSE (IF Head(s) \in keep THEN 1 ELSE 0) + CountIn(Tail(s), n - 1, keep)

\* The index right after the k-th such character of s, k >= 1.
AfterNth(s, k, keep) ==
    CHOOSE j \in 1..Len(s) : s[j] \in keep /\ CountIn(s, j, keep) = k

\* The last event typed a digit at a caret inside the numeric region of a
\* grouped, prefixed value, and the formatter kept the number up to that digit.
DigitTyped ==
    LET c    == props.c
        text == out.prev.value
        sign == IF CharAt(text, 0) = "-" THEN 1 ELSE 0
        keep == getNumberRegex(c, FALSE)
    IN  /\ out.ev = "change"
        /\ out.edit.from = out.edit.to
        /\ Len(out.edit.ins) = 1
        /\ out.edit.ins[1] \in Digits
        /\ c.prefix # <<>>
        /\ ~falsySep(c.thousandSeparator)
        /\ out.edit.from >= Len(c.prefix) + sign
        /\ out.edit.from <= Len(text) - Len(c.suffix)
        /\ ~out.rejected
        /\ LET k == CountIn(out.input, out.caret, keep)
           IN  Substring(KeepIn(out.written, keep), 0, k) = Substring(KeepIn(out.input, keep), 0, k)

\* C7: caret stability on insertion.  After a digit typed inside the numeric
\* region of a grouped, prefixed value, getCaretPosition is the index right
\* after the typed digit in the re-formatted text, whatever separators the
\* re-formatting inserted or moved; "$1,234" with the caret at 6 and a typed
\* 5 gives "$12,345" and the caret at 7.
C7_CaretAfterTypedDigit ==
    /\ DigitTyped =>
          LET keep == getNumberRegex(props.c, FALSE)
              k    == CountIn(out.input, out.caret, keep)
          IN  /\ out.caretPos = AfterNth(out.written, k, keep)
              /\ CharAt(out.written, out.caretPos - 1) = out.edit.ins[1]
    /\ (/\ out.ev = "change"
        /\ props.c = cUSD
        /\ out.prev.value = <<"$", "1", ",", "2", "3", "4">>
        /\ out.edit = [from |-> 6, to |-> 6, ins |-> <<"5">>]) =>
          /\ out.written = <<"$", "1", "2", ",", "3", "4", "5">>
          /\ out.caretPos = 7

C7_Witness ==
    /\ DigitTyped
    /\ props.c = cUSD
    /\ out.prev.value = <<"$", "1", ",", "2", "3", "4">>
    /\ out.edit = [from |-> 6, to |-> 6, ins |-> <<"5">>]
    /\ out.written = <<"$", "1", "2", ",", "3", "4", "5">>
    /\ out.caretPos = 7

C7_WitnessMoved ==
    /\ DigitTyped
    /\ out.prev.value = <<"$", "1", ",", "2", "3", "4">>
    /\ out.edit = [from |-> 3, to |-> 3, ins |-> <<"5">>]
    /\ out.written = <<"$", "1", "5", ",", "2", "3", "4">>
    /\ out.caretPos = 3

(***************************************************************************)
(* The README's Thousand Spacing table (SpecGroup).                        *)
(***************************************************************************)
\* C11: thousandSpacing "2" renders 1234567 as 12,34,56,7: groups of two
\* counted from the left, the last digit left alone.
C11_SpacingTwoFromTheLeft ==
    (/\ ret.fn = "group"
     /\ arg.x = Seven
     /\ arg.c.thousandSpacing = "2"
     /\ arg.c.thousandSeparator = ",") =>
        /\ ret.formatted = <<"1", "2", ",", "3", "4", ",", "5", "6", ",", "7">>
        /\ ret.reformatted = <<"1", "2", ",", "3", "4", ",", "5", "6", ",", "7">>

(***************************************************************************)
(* Claims about the decimal scale and the sign (SpecFmt).                  *)
(***************************************************************************)
\* The fractional digits of a formatted text: what stands between its last
\* decimal separator and its suffix.
FractionOfText(text, c) ==
    LET fraction(body, at) == IF at = -1 THEN <<>> ELSE Substring(body, at + 1, Len(body))
        unsuffixed(body) == fraction(body, LastIndexOf(body, <<c.decimalSeparator>>))
    IN  unsuffixed(Substring(text, 0, Len(text) - Len(c.suffix)))

\* The text ends with the decimal separator, exactly n digits and the suffix.
EndsWithFraction(text, c, n) ==
    LET body == Substring(text, 0, Len(text) - Len(c.suffix))
    IN  /\ Len(body) > n
        /\ body[Len(body) - n] = c.decimalSeparator
        /\ \A i \in (Len(body) - n + 1)..Len(body) : body[i] \in Digits
        /\ Substring(text, Len(body), Len(text)) = c.suffix

cUSDFixed2 == [defaults EXCEPT !.prefix = <<"$">>, !.decimalScale = 2, !.fixedDecimalScale = TRUE]

C12_WitnessStandalone ==
    /\ ret.fn = "standalone"
    /\ arg.x = <<"1", "2", "3", "4", ".", "5">>
    /\ arg.c = cUSDFixed2
    /\ ret.formatted = <<"$", "1", ",", "2", "3", "4", ".", "5", "0">>

C12_WitnessCut ==
    /\ ret.fn = "component"
    /\ arg.x = <<"1", ".", "5", "5", "5">>
    /\ arg.c.decimalScale = 2
    /\ ~arg.c.fixedDecimalScale
    /\ FractionOfText(ret.formatted, arg.c) = <<"5", "5">>

\* The formatted text of x by the function that made ret.
FormattedBy(fn, x, c) ==
    CASE fn = "component"  -> formatNumString(c, x)
      [] fn = "standalone" -> formatCurrency(x, c)
      [] fn = "typed"      -> TypedInto(x, c).written

MinusExample == <<"-", "1", "2", "3", "4", ".", "5", "6">>

C13_WitnessDropped ==
    /\ ret.fn = "typed"
    /\ arg.x = MinusExample
    /\ arg.c = [cUSD EXCEPT !.allowNegative = FALSE]
    /\ ret.formatted = <<"$", "1", ",", "2", "3", "4", ".", "5", "6">>

C13_WitnessStandalone ==
    /\ ret.fn = "standalone"
    /\ arg.x = MinusExample
    /\ arg.c = [cUSD EXCEPT !.allowNegative = FALSE]
    /\ ret.formatted = <<"$", "1", ",", "2", "3", "4", ".", "5", "6">>

(***************************************************************************)
(* Pattern mode alone: formatWithPattern on a string of digits, and        *)
(* removePatternFormatting of its result.                                  *)
(***************************************************************************)
MaxPatternDigits == 4

\* "+1 (###) ###-####"
PhonePattern ==
    <<"+", "1", " ", "(", "#", "#", "#", ")", " ", "#", "#", "#", "-", "#", "#", "#", "#">>

Patterns ==
    { PhonePattern,
      <<"#", "#", "-", "#", "#">>,
      <<"#", "#", "1", "#">>,
      <<"#", "#", "/", "#", "#", "/", "1", "5">> }

Masks ==
    { noMask,
      [isArray |-> FALSE, chars |-> <<"_">>],
      [isArray |-> TRUE, chars |-> <<"_", "x">>],
      [isArray |-> TRUE, chars |-> <<"a", "b", "c", "d">>] }

PatternConfigs == { [defaults EXCEPT !.format = p, !.mask = m] : p \in Patterns, m \in Masks }

PhoneDigits == <<"5", "5", "5", "1", "2", "3", "4", "5", "6", "7">>

PatternDigits ==
    Strings({"1", "5"}, 0, MaxPatternDigits) \cup {PhoneDigits, <<"5", "5", "5">>}

InitPattern ==
    /\ arg \in [x : PatternDigits, c : PatternConfigs]
    /\ ret = noRet
    /\ IdleComponent

\* formatted: formatWithPattern of the digits; value: removePatternFormatting
\* of that text; reformatted: formatWithPattern of that value.
ApplyPattern ==
    /\ ret.fn = "none"
    /\ \E formatted \in {formatWithPattern(arg.c, arg.x)} :
       \E value \in {removePatternFormatting(arg.c, formatted)} :
          ret' = [noRet EXCEPT !.fn = "pattern", !.formatted = formatted, !.value = value,
                               !.reformatted = formatWithPattern(arg.c, value)]
    /\ UNCHANGED <<arg, component>>

NextPattern == ApplyPattern

SpecPattern == InitPattern /\ [][NextPattern]_vars

(***************************************************************************)
(* Claims about pattern mode (SpecPattern).                                *)
(***************************************************************************)
\* The number of "#" among the first i characters of a pattern.
Placeholders(format, i) == Cardinality({j \in 1..i : format[j] = "#"})

\* What an unfilled placeholder of 0-based index k shows: the mask character,
\* or the k-th entry of the mask array, or a space past the end of the array.
MaskShown(mask, k) ==
    IF ~mask.isArray THEN mask.chars[1]
    ELSE IF k < Len(mask.chars) THEN mask.chars[k + 1] ELSE " "

\* C14: pattern formatting.  The text has the length of the pattern, every
\* character of the pattern other than "#" stands unchanged at its position,
\* the k-th "#" holds the k-th digit when there is one and the mask of index
\* k otherwise, and the digits beyond the placeholders are dropped;
\* "+1 (###) ###-####" with mask "_" renders 5551234567 as "+1 (555) 123-4567"
\* and 555 as "+1 (555) ___-____".
C14_PatternFormatting ==
    ret.fn = "pattern" =>
        LET format == arg.c.format
        IN  /\ Len(ret.formatted) = Len(format)
            /\ \A i \in 1..Len(format) :
                  ret.formatted[i] =
                      (IF format[i] # "#" THEN format[i]
                       ELSE IF Placeholders(format, i) <= Len(arg.x)
                       THEN arg.x[Placeholders(format, i)]
                       ELSE MaskShown(arg.c.mask, Placeholders(format, i) - 1))
            /\ (format = PhonePattern /\ arg.c.mask.chars = <<"_">> /\ arg.x = PhoneDigits) =>
                  ret.formatted = <<"+", "1", " ", "(", "5", "5", "5", ")", " ",
                                    "1", "2", "3", "-", "4", "5", "6", "7">>
            /\ (format = PhonePattern /\ arg.c.mask.chars = <<"_">> /\ arg.x = <<"5", "5", "5">>) =>
                  ret.formatted = <<"+", "1", " ", "(", "5", "5", "5", ")", " ",
                                    "_", "_", "_", "-", "_", "_", "_", "_">>

C14_Witness ==
    /\ ret.fn = "pattern"
    /\ arg.c.format = PhonePattern
    /\ arg.c.mask.chars = <<"_">>
    /\ arg.x = <<"5", "5", "5">>
    /\ ret.formatted = <<"+", "1", " ", "(", "5", "5", "5", ")", " ",
                         "_", "_", "_", "-", "_", "_", "_", "_">>

C14_WitnessDropped ==
    /\ ret.fn = "pattern"
    /\ arg.c.format = <<"#", "#", "1", "#">>
    /\ arg.c.mask = [isArray |-> TRUE, chars |-> <<"_", "x">>]
    /\ arg.x = <<"5", "1", "5", "1">>
    /\ ret.formatted = <<"5", "1", "1", "5">>

C14_WitnessArray ==
    /\ ret.fn = "pattern"
    /\ arg.c.format = <<"#", "#", "-", "#", "#">>
    /\ arg.c.mask = [isArray |-> TRUE, chars |-> <<"_", "x">>]
    /\ arg.x = <<"5">>
    /\ ret.formatted = <<"5", "x", "-", " ", " ">>

\* C15: pattern-mode round trip.  For a digit string no longer than the number
\* of placeholders and a mask that is not a digit,
\* removePatternFormatting(formatWithPattern(d)) = d, also when the literals
\* of the pattern hold digits: a digit of a literal is never part of the raw
\* value.
C15_PatternRoundTrip ==
    (/\ ret.fn = "pattern"
     /\ Len(arg.x) <= Placeholders(arg.c.format, Len(arg.c.format))
     /\ ~maskHasDigit(arg.c)) =>
        ret.value = arg.x

(***************************************************************************)
(* Finalizing: a mounted, uncontrolled component whose defaultValue is a   *)
(* text with leading zeros; the user blurs it, presses Enter, or types a   *)
(* zero.                                                                   *)
(***************************************************************************)
MaxZeroDigits == 3

MaxFinalizeLen == 5

FinalizeTexts ==
    { sign \o int \o frac :
        sign \in {<<>>, <<"-">>},
        int \in Strings({"0", "2"}, 0, MaxZeroDigits) \cup {<<"0", "0", "1", "2", "3">>},
        frac \in {<<>>, <<".", "5">>, <<".", "0", "5">>} }

FinalizeProps ==
    { [noProps EXCEPT !.c = c, !.defaultValue = StringValue(x),
                      !.disabled = lock = "disabled", !.readOnly = lock = "readOnly"] :
        c \in ValidConfigs, x \in FinalizeTexts, lock \in {"none", "disabled", "readOnly"} }

InitFinalize ==
    /\ arg = noArg
    /\ ret = noRet
    /\ props \in FinalizeProps
    /\ state = getInitialState(props)
    /\ status = "mounted"
    /\ out = noOut
    /\ isComposingRef = FALSE
    /\ el = [value |-> <<>>, selectionStart |-> 0]
    /\ timers = <<>>
    /\ valueAsString = <<>>

\* The user types a zero somewhere in a short text.
TypeZero ==
    /\ Len(state.value) < MaxFinalizeLen
    /\ \E from \in 0..Len(state.value) : ChangeStep(from, from, <<"0">>)

NextFinalize == Blur \/ KeyDownEnter \/ TypeZero \/ Render

SpecFinalize == InitFinalize /\ [][NextFinalize]_vars

(***************************************************************************)
(* Claims about finalizing (SpecFinalize).                                 *)
(***************************************************************************)
\* The integer digits of a raw value: between its sign and its ".".
IntOf(x) ==
    LET unsigned(body) == Substring(body, 0, IF IndexOf(body, <<".">>, 0) = -1 THEN Len(body)
                                             ELSE IndexOf(body, <<".">>, 0))
    IN  unsigned(IF CharAt(x, 0) = "-" THEN Tail(x) ELSE x)

\* x without the leading zeros of its integer part, a single "0" standing for
\* an integer part that would be empty; sign and fraction as they are.
WithoutLeadingZeros(x) ==
    (IF CharAt(x, 0) = "-" THEN <<"-">> ELSE <<>>)
      \o (IF StripLeadingZeros(IntOf(x)) = <<>> THEN <<"0">> ELSE StripLeadingZeros(IntOf(x)))
      \o (IF FracOf(x) = <<>> THEN <<>> ELSE <<".">> \o FracOf(x))

\* A blur, or an Enter key, that the code finalizes: numeric mode.
Finalized ==
    /\ out.ev \in {"blur", "enter"}
    /\ ~hasFormat(props.c)
    /\ ~props.disabled /\ ~props.readOnly

\* C16: leading-zero fix.  fixLeadingZero removes the leading zeros of the
\* integer part, keeps one "0" for an empty integer part and leaves sign and
\* fraction alone; blur and Enter in numeric mode apply it and store display
\* text and raw value together (raw "00123" becomes "123"); pattern mode and
\* handleChange never apply it.
C16_LeadingZeroFix ==
    /\ state.numAsString # <<>> =>
          fixLeadingZero(state.numAsString) = WithoutLeadingZeros(state.numAsString)
    /\ Finalized =>
          \/ /\ state = out.prev
             /\ ~out.notified
             /\ fixLeadingZero(out.prev.numAsString) = out.prev.numAsString
             /\ formatNumString(props.c, out.prev.numAsString) = out.prev.value
          \/ /\ state.numAsString = fixLeadingZero(out.prev.numAsString)
             /\ state.value = formatNumString(props.c, state.numAsString)
             /\ state.value # out.prev.value
             /\ out.notified
             /\ out.valueObj.value = state.numAsString
             /\ out.valueObj.formattedValue = state.value
    /\ (Finalized /\ out.prev.numAsString = <<"0", "0", "1", "2", "3">>) =>
          state.numAsString = <<"1", "2", "3">>
    /\ (out.ev \in {"blur", "enter"} /\ hasFormat(props.c)) => state = out.prev
    /\ (/\ out.ev = "change"
        /\ ~hasFormat(props.c) /\ ~props.disabled /\ ~props.readOnly
        /\ KeepIn(out.prev.value, Digits) # <<>>
        /\ out.edit.from = Len(props.c.prefix) + (IF CharAt(out.prev.value, 0) = "-" THEN 1 ELSE 0)) =>
          /\ CharAt(IntOf(state.numAsString), 0) = "0"
          /\ Len(IntOf(state.numAsString)) > 1
          /\ state.numAsString # fixLeadingZero(state.numAsString)

C16_Witness ==
    /\ out.ev = "blur"
    /\ props.c = cUSD
    /\ out.prev = [value |-> <<"$", "0", "0", ",", "1", "2", "3">>,
                   numAsString |-> <<"0", "0", "1", "2", "3">>]
    /\ state = [value |-> <<"$", "1", "2", "3">>, numAsString |-> <<"1", "2", "3">>]
    /\ out.notified

C16_WitnessEnter ==
    /\ out.ev = "enter"
    /\ props.c = cPct
    /\ out.prev.numAsString = <<"-", "0", "2", ".", "5">>
    /\ state = [value |-> <<"-", "2", ".", "5", "%">>, numAsString |-> <<"-", "2", ".", "5">>]

C16_WitnessTyped ==
    /\ out.ev = "change"
    /\ props.c = cUSD
    /\ out.prev.value = <<"$", "2">>
    /\ out.edit.from = 1
    /\ state = [value |-> <<"$", "0", "2">>, numAsString |-> <<"0", "2">>]

\* C17: finalizing a raw value that is a sign followed only by zeros gives the
\* empty state: raw "-00" becomes "", with an empty or prefix-and-suffix-only
\* display, not a signed zero.
C17_SignedZerosFinalizeToEmpty ==
    (/\ Finalized
     /\ CharAt(out.prev.numAsString, 0) = "-"
     /\ Len(out.prev.numAsString) > 1
     /\ \A i \in 2..Len(out.prev.numAsString) : out.prev.numAsString[i] = "0") =>
        /\ state.numAsString = <<>>
        /\ state.value \in {<<>>, props.c.prefix \o props.c.suffix}

(***************************************************************************)
(* Claims about notifications and inert inputs (Spec, SpecFinalize).       *)
(***************************************************************************)
\* C18: source tagging.  Every onValueChange call made by a change, blur or
\* Enter event carries source "event", every call made by a prop update
\* carries source "prop", and no call is made when the newly computed display
\* text equals the current one: a prop update never emits "event".
C18_SourceTagging ==
    /\ out.notified =>
          /\ out.ev \in {"change", "blur", "enter", "props"}
          /\ out.source = (IF out.ev = "props" THEN "prop" ELSE "event")
          /\ state.value # out.prev.value
          /\ out.valueObj.formattedValue = state.value
    /\ ~out.notified => out.source = ""
    /\ (out.ev \in {"change", "blur", "enter", "props"} /\ ~out.threw
        /\ out.written = out.prev.value /\ state.value = out.prev.value) => ~out.notified
    /\ out.ev = "props" => out.source # "event"

C18_Witness ==
    /\ out.ev = "props"
    /\ out.notified
    /\ out.source = "prop"
    /\ props.value = StringValue(<<"5">>)
    /\ out.prev.value = <<"$", "1", "5">>
    /\ state.value = <<"$", "5">>

C18_WitnessEvent ==
    /\ out.ev = "change"
    /\ out.notified
    /\ out.source = "event"
    /\ out.prev.value = <<"$", "1", "5">>
    /\ state.value = <<"$", "1", "5", "5">>

C18_WitnessSilent ==
    /\ out.ev = "props"
    /\ ~out.notified
    /\ props.value = StringValue(<<"1", "5">>)
    /\ out.prev.value = <<"$", "1", "5">>
    /\ state = out.prev

\* C19: disabled / readOnly inputs are inert.  While disabled or readOnly is
\* set, no change, Enter or blur event changes the EditState or calls
\* onValueChange.
C19_DisabledReadOnlyInert ==
    ((props.disabled \/ props.readOnly) /\ out.ev \in {"change", "blur", "enter"}) =>
        /\ state = out.prev
        /\ ~out.notified

(***************************************************************************)
(* Composition: the mounted component of InitFinalize, whose user starts   *)
(* and ends input-method compositions, and types, blurs and presses Enter  *)
(* in between.                                                             *)
(***************************************************************************)
ComposedTexts == {<<"5">>, <<"1", "2">>}

handleCompositionStart ==
    /\ status = "mounted"
    /\ out.ev = "none"
    /\ isComposingRef' = TRUE
    /\ UNCHANGED <<props, state, status, out, functions, el, timers, valueAsString>>

\* compositionend clears the ref and dispatches an input event on the
\* element, whose text is now the text before the composition with the
\* composed characters at the caret: handleChange runs on it.
handleCompositionEnd ==
    /\ status = "mounted"
    /\ out.ev = "none"
    /\ isComposingRef
    /\ Len(state.value) < MaxFinalizeLen
    /\ isComposingRef' = FALSE
    /\ \E from \in 0..Len(state.value) : \E ins \in ComposedTexts :
          \E inputValue \in {Substring(state.value, 0, from) \o ins
                               \o Substring(state.value, from, Len(state.value))} :
             \E r \in {handleChange(props, state, inputValue, from + Len(ins))} :
                Done("compositionend", props.c,
                     [edit |-> [from |-> from, to |-> from, ins |-> ins],
                      input |-> inputValue, caret |-> from + Len(ins)], r)
    /\ UNCHANGED <<props, status, functions, el, timers, valueAsString>>

\* An input event of the composition itself.
ComposeChange ==
    /\ isComposingRef
    /\ Len(state.value) < MaxFinalizeLen
    /\ \E from \in 0..Len(state.value) : \E ch \in {"1", "5"} : ChangeStep(from, from, <<ch>>)

NextCompose ==
    \/ handleCompositionStart
    \/ handleCompositionEnd
    \/ ComposeChange
    \/ Blur
    \/ KeyDownEnter
    \/ Render

SpecCompose == InitFinalize /\ [][NextCompose]_vars

\* C20: IME composition suspends formatting.  Between compositionstart and
\* compositionend no change, Enter or blur event changes the EditState,
\* rewrites the input text or calls onValueChange; the event dispatched at
\* compositionend runs handleChange once on the composed text.
C20_CompositionSuspendsFormatting ==
    /\ (isComposingRef /\ out.ev \in {"change", "blur", "enter"}) =>
          /\ state = out.prev
          /\ ~out.notified
          /\ out.formattedWith = {}
    /\ out.ev = "compositionend" =>
          /\ ~isComposingRef
          /\ out.written = handleChange(props, out.prev, out.input, out.caret).written
          /\ out.notified = handleChange(props, out.prev, out.input, out.caret).notified
          /\ state = handleChange(props, out.prev, out.input, out.caret).state

(***************************************************************************)
(* Rounding: a numeric value prop rendered by the component, and           *)
(* formatCurrency of the same number, under a decimalScale.                *)
(***************************************************************************)
MaxRoundInt == 3

MaxRoundFrac == 3

MaxRoundScale == 2

\* The numbers x are what toString() gives: no leading zero in the integer
\* part, no trailing zero in the fraction.
InitRound ==
    /\ arg \in [x : { sign \o int \o frac :
                        sign \in {<<>>, <<"-">>},
                        int \in Strings({"1", "9"}, 1, MaxRoundInt),
                        frac \in {<<>>} \cup { <<".">> \o f \o <<last>> :
                                   f \in Strings({"0", "5", "9"}, 0, MaxRoundFrac - 1),
                                   last \in {"5", "9"} } },
                  c : { [defaults EXCEPT !.thousandSeparator = TSepFalse,
                                         !.decimalScale = s, !.fixedDecimalScale = f] :
                          s \in 0..MaxRoundScale, f \in BOOLEAN }]
    /\ ret = noRet
    /\ IdleComponent

\* <CurrencyFormat value={x} decimalScale=... />: the text of the first render.
ApplyValueProp ==
    /\ ret.fn = "none"
    /\ \E st \in {getInitialState([noProps EXCEPT !.c = arg.c,
                                     !.value = [kind |-> "number", s |-> arg.x]])} :
          ret' = [fn |-> "valueProp", threw |-> FALSE, formatted |-> st.value,
                  value |-> st.numAsString, floatValue |-> parseFloat(st.numAsString),
                  reformatted |-> formatInput(arg.c, st.value)]
    /\ UNCHANGED <<arg, component>>

NextRound == ApplyValueProp \/ ApplyStandalone

SpecRound == InitRound /\ [][NextRound]_vars

(***************************************************************************)
(* Claims about rounding (SpecRound).                                      *)
(***************************************************************************)
\* |x| * 10^scale rounded half up to an integer, by long addition on the
\* decimal digits of x.
RoundedUnits(x, scale) ==
    (DigitsValue(IntOf(x) \o PadRight(FracOf(x), scale + 1)) + 5) \div 10

\* x rounded to scale fractional digits, written with exactly scale digits.
RoundedText(x, scale) ==
    (IF Head(x) = "-" THEN <<"-">> ELSE <<>>)
      \o IntToStr(RoundedUnits(x, scale) \div Pow10(scale))
      \o (IF scale = 0 THEN <<>>
          ELSE <<".">> \o ZeroPad(IntToStr(RoundedUnits(x, scale) % Pow10(scale)), scale))

\* C25: carry-propagating rounding.  The text rendered from a numeric prop
\* and the text of formatCurrency are x rounded half up to decimalScale
\* fractional digits, the carry going through all integer digits and the
\* sign kept: as a number under every configuration, and digit for digit
\* under fixedDecimalScale with a scale of one or more (9.999 at scale 2 is
\* 10.00, 199.995 is 200.00, -9.99 at scale 1 is -10.0).
C25_CarryPropagatingRounding ==
    ret.fn \in {"valueProp", "standalone"} =>
        /\ parseFloat(ret.formatted) = parseFloat(RoundedText(arg.x, arg.c.decimalScale))
        /\ (arg.c.fixedDecimalScale /\ arg.c.decimalScale > 0) =>
              ret.formatted = RoundedText(arg.x, arg.c.decimalScale)

(***************************************************************************)
(* Claims about edits of the mounted component (Spec).                     *)
(***************************************************************************)
\* The last event was a deletion in numeric mode that left, in the input, a
\* raw value shorter than the previous one, with an empty or zero integer
\* part and an empty or zero fraction.
DeletedToZero ==
    /\ out.ev = "change"
    /\ out.formattedWith # {}
    /\ ~out.rejected
    /\ ~hasFormat(props.c)
    /\ out.edit.ins = <<>>
    /\ out.input # <<>>
    /\ Len(removeFormatting(props.c, out.input)) < Len(out.prev.numAsString)
    /\ KeepIn(IntOf(removeFormatting(props.c, out.input)), Digits \ {"0"}) = <<>>
    /\ KeepIn(FracOf(removeFormatting(props.c, out.input)), Digits \ {"0"}) = <<>>

\* C26: collapse to empty on deletion.  After such a deletion the corrected
\* input is "" (or "-" for a negative value when negation is allowed), and the
\* raw value that results is empty rather than zeros such as ".00" or "0.00".
C26_CollapseToEmptyOnDeletion ==
    DeletedToZero =>
        /\ out.corrected = (IF CharAt(removeFormatting(props.c, out.input), 0) = "-"
                               /\ props.c.allowNegative
                            THEN <<"-">> ELSE <<>>)
        /\ KeepIn(state.numAsString, Digits \cup {"."}) = <<>>

\* The last change event was reverted: rejected by isAllowed, or absorbed
\* because it deleted protected characters only.
Reverted ==
    /\ out.ev = "change"
    /\ out.formattedWith # {}
    /\ out.written = out.prev.value
    /\ (out.rejected \/ ProtectedDeletion)

\* C23: on an edit-time anomaly the caret stays put.  When an edit is
\* reverted, the caret applied after it is the corrected position of the
\* caret the user had before the keystroke (either end of the deleted range
\* for a deletion), wherever in the number the edit was made.
C23_CaretStaysPutOnRevert ==
    Reverted =>
        out.caretPos \in { correctCaretPosition(props.c, out.prev.value, out.edit.from, ""),
                           correctCaretPosition(props.c, out.prev.value, out.edit.to, "") }

(***************************************************************************)
(* User events under an acceptance predicate: a mounted component with an  *)
(* isAllowed callback that accepts its initial value; the user types,      *)
(* deletes, blurs and presses Enter.                                       *)
(***************************************************************************)
\* The ValueObject of an EditState.
ValueObjectOf(st) ==
    [formattedValue |-> st.value, value |-> st.numAsString,
     floatValue |-> parseFloat(st.numAsString)]

InitAllowed ==
    /\ arg = noArg
    /\ ret = noRet
    /\ props \in { [noProps EXCEPT !.c = c, !.defaultValue = StringValue(x),
                                     !.isAllowed = allowed] :
                     c \in {cUSD, cPct}, x \in {<<>>, <<"5">>},
                     allowed \in {"le100", "nonZero"} }
    /\ state = getInitialState(props)
    /\ isAllowed(props, ValueObjectOf(state))
    /\ status = "mounted"
    /\ out = noOut
    /\ isComposingRef = FALSE
    /\ el = [value |-> <<>>, selectionStart |-> 0]
    /\ timers = <<>>
    /\ valueAsString = <<>>

NextAllowed == Change \/ Blur \/ KeyDownEnter \/ Render

SpecAllowed == InitAllowed /\ [][NextAllowed]_vars

\* C29: the acceptance predicate is an invariant of user-driven states.
\* Starting from an accepted value, after every change, blur and Enter event
\* the ValueObject of the current EditState satisfies isAllowed, and so does
\* every ValueObject passed to onValueChange.
C29_AcceptanceInvariant ==
    /\ isAllowed(props, ValueObjectOf(state))
    /\ out.notified => isAllowed(props, out.valueObj)

(***************************************************************************)
(* A CurrencyFormat driven by useCurrencyFormat: the parent spreads the     *)
(* hook's inputProps on the component, and onValueChange stores             *)
(* values.value in the hook's state valueAsString.                          *)
(***************************************************************************)
\* x.toString() for a number.
NumberToString(x) ==
    IF x.nan THEN <<"N", "a", "N">>
    ELSE (IF x.neg THEN <<"-">> ELSE <<>>) \o IntToStr(x.int)
            \o (IF x.frac = <<>> THEN <<>> ELSE <<".">> \o x.frac)

\* The props the hook hands out for its state v and the format options c.
inputProps(c, v) ==
    [noProps EXCEPT !.c = c,
                    !.value = IF v = <<>> THEN StringValue(<<>>)
                              ELSE [kind |-> "number", s |-> NumberToString(parseFloat(v))]]

InitEcho ==
    /\ arg = noArg
    /\ ret = noRet
    /\ valueAsString \in {<<>>, <<"0">>, <<"1">>}
    /\ props \in {inputProps(c, valueAsString) : c \in {defaults, cUSD}}
    /\ state = getInitialState(props)
    /\ status = "mounted"
    /\ out = noOut
    /\ isComposingRef = FALSE
    /\ el = [value |-> <<>>, selectionStart |-> 0]
    /\ timers = <<>>

\* The last handler or effect called onValueChange with a value that differs
\* from the hook's state: setValueAsString makes the parent render again.
EchoPending == out.notified /\ out.valueObj.value # valueAsString

\* The parent renders with the new valueAsString: inputProps is a new
\* object, and the component's props effect runs on the state the handler
\* left.
Echo ==
    /\ status = "mounted"
    /\ out.ev \in {"change", "props"}
    /\ EchoPending
    /\ valueAsString' = out.valueObj.value
    /\ \E p \in {[inputProps(props.c, out.valueObj.value) EXCEPT !.rev = 1 - props.rev]} :
          /\ props' = p
          /\ \E r \in {propsChangeEffect(p, state)} : Done("props", p.c, noInput, r)
    /\ UNCHANGED <<status, functions, isComposingRef, el, timers>>

NextEcho == Change \/ Echo \/ (~EchoPending /\ Render)

SpecEcho == InitEcho /\ [][NextEcho]_vars

\* C28: a keystroke survives the prop echo.  The props effect that runs when
\* the hook passes the stored value back as the value prop leaves the text
\* and the raw value that handleChange accepted for the keystroke, and
\* notifies nobody.
C28_KeystrokeSurvivesPropEcho ==
    out.ev = "props" => (state = out.prev /\ ~out.notified)

(***************************************************************************)
(* The caret.  el is the input element (its text and its collapsed         *)
(* selection), timers the setTimeout callbacks that have not run yet.  In  *)
(* this specification out records the last event: the element, the timers  *)
(* and the state it met, whether it called setPatchedCaretPosition and     *)
(* with which position and text, and the caret the last user event left.   *)
(***************************************************************************)
MaxCaretLen == 3

MaxTimers == 2

\* setCaretPosition: el.value = el.value, then setSelectionRange(caretPos,
\* caretPos), whose unsigned long arguments the element clamps to the length
\* of its text (a negative position becomes a huge one).
setCaretPosition(e, caretPos) ==
    [e EXCEPT !.selectionStart =
        IF caretPos < 0 \/ caretPos > Len(e.value) THEN Len(e.value) ELSE caretPos]

\* handleKeyDown for Home, End, the arrows, Backspace and Delete with a
\* collapsed selection: whether it calls preventDefault and
\* setPatchedCaretPosition, and with which position.
handleKeyDown(c, value, selectionStart, key) ==
    LET moved(expectedCaretPosition, newCaretPosition, leftBound, rightBound) ==
            [patched  |-> \/ newCaretPosition # expectedCaretPosition
                          \/ expectedCaretPosition < leftBound
                          \/ expectedCaretPosition > rightBound,
             caretPos |-> newCaretPosition]
        least(S) == CHOOSE n \in S : \A m \in S : n <= m
        greatest(S) == CHOOSE n \in S : \A m \in S : n >= m
        isFormat(numRegex, i) == CharAt(value, i) \notin numRegex /\ CharAt(value, i) # "-"
        keyed(numRegex, leftBound, rightBound) ==
            CASE key = "Home" -> [patched |-> TRUE, caretPos |-> leftBound]
              [] key = "End" -> [patched |-> TRUE, caretPos |-> rightBound]
              [] key = "ArrowLeft" ->
                    moved(selectionStart - 1,
                          correctCaretPosition(c, value, selectionStart - 1, "left"),
                          leftBound, rightBound)
              [] key = "ArrowRight" ->
                    moved(selectionStart + 1,
                          correctCaretPosition(c, value, selectionStart + 1, "right"),
                          leftBound, rightBound)
              [] key = "Delete" ->
                    moved(selectionStart,
                          IF isFormat(numRegex, selectionStart)
                          THEN least({n \in selectionStart..Max(selectionStart, rightBound) :
                                        CharAt(value, n) \in numRegex \/ n >= rightBound})
                          ELSE selectionStart,
                          leftBound, rightBound)
              [] key = "Backspace" ->
                    moved(selectionStart - 1,
                          IF isFormat(numRegex, selectionStart - 1)
                          THEN correctCaretPosition(c, value,
                                   greatest({n \in Min(selectionStart - 1, leftBound)..(selectionStart - 1) :
                                               CharAt(value, n - 1) \in numRegex \/ n <= leftBound}),
                                   "left")
                          ELSE selectionStart - 1,
                          leftBound, rightBound)
    IN  keyed(getNumberRegex(c, c.decimalScale # NoScale /\ c.fixedDecimalScale),
              IF hasFormat(c) THEN IndexOf(c.format, <<"#">>, 0)
              ELSE Len(c.prefix) + (IF CharAt(value, 0) = "-" THEN 1 ELSE 0),
              IF hasFormat(c) THEN LastIndexOf(c.format, <<"#">>) + 1
              ELSE Len(value) - Len(c.suffix))

\* setPatchedCaretPosition(el, caretPos, value) called by the handler of the
\* event ev on the element e: the caret is set, and set again by a timer.
setPatchedCaretPosition(ev, key, edit, e, caretPos, value) ==
    /\ el' = setCaretPosition([e EXCEPT !.value = value], caretPos)
    /\ timers' = Append(timers, [fn |-> "patch", caretPos |-> caretPos, value |-> value])
    /\ out' = [ev |-> ev, key |-> key, edit |-> edit, el |-> e, timers |-> timers,
               state |-> state, patched |-> TRUE, caretPos |-> caretPos, value |-> value,
               established |-> el'.selectionStart]

\* The event ev moved the caret of the element to e without a call of
\* setPatchedCaretPosition.
Unpatched(ev, key, e0, e) ==
    /\ el' = e
    /\ out' = [ev |-> ev, key |-> key, edit |-> noEdit, el |-> e0, timers |-> timers,
               state |-> state, patched |-> FALSE, caretPos |-> 0, value |-> <<>>,
               established |-> e.selectionStart]

\* An input event: the browser has replaced the characters from..to-1 of
\* the text by ins, and handleChange runs.
InputEvent(ev, key, from, to, ins) ==
    \E inputValue \in {Substring(el.value, 0, from) \o ins
                         \o Substring(el.value, to, Len(el.value))} :
       \E r \in {handleChange(props, state, inputValue, from + Len(ins))} :
          /\ state' = r.state
          /\ setPatchedCaretPosition(ev, key, [from |-> from, to |-> to, ins |-> ins],
                                     el, r.caretPos, r.written)

\* A key goes down.  When the handler does not prevent it, the browser acts:
\* an arrow moves the caret, Backspace and Delete remove a character and
\* fire the input event.
KeyDown ==
    /\ Len(timers) < MaxTimers
    /\ \E key \in {"Home", "End", "ArrowLeft", "ArrowRight", "Backspace", "Delete"} :
        \E k \in {handleKeyDown(props.c, el.value, el.selectionStart, key)} :
           IF k.patched
           THEN /\ setPatchedCaretPosition("keydown", key, noEdit, el, k.caretPos, el.value)
                /\ state' = state
           ELSE IF key = "ArrowLeft"
           THEN /\ Unpatched("keydown", key, el, [el EXCEPT !.selectionStart = Max(@ - 1, 0)])
                /\ UNCHANGED <<state, timers>>
           ELSE IF key = "ArrowRight"
           THEN /\ Unpatched("keydown", key, el,
                             [el EXCEPT !.selectionStart = Min(@ + 1, Len(el.value))])
                /\ UNCHANGED <<state, timers>>
           ELSE IF key = "Backspace" /\ el.selectionStart > 0
           THEN InputEvent("keydown", key, el.selectionStart - 1, el.selectionStart, <<>>)
           ELSE IF key = "Delete" /\ el.selectionStart < Len(el.value)
           THEN InputEvent("keydown", key, el.selectionStart, el.selectionStart + 1, <<>>)
           ELSE /\ Unpatched("keydown", key, el, el)
                /\ UNCHANGED <<state, timers>>
    /\ UNCHANGED <<props, status, functions, isComposingRef, valueAsString>>

\* The user types a character at the caret, or selects the character after
\* the caret and removes it.
Input ==
    /\ Len(timers) < MaxTimers
    /\ \/ /\ Len(el.value) < MaxCaretLen
          /\ \E ch \in {"5", "-"} :
                InputEvent("change", "", el.selectionStart, el.selectionStart, <<ch>>)
       \/ /\ el.selectionStart < Len(el.value)
          /\ InputEvent("change", "", el.selectionStart, el.selectionStart + 1, <<>>)
    /\ UNCHANGED <<props, status, functions, isComposingRef, valueAsString>>

\* The user clicks at position q: the browser puts the caret there and
\* handleMouseUp corrects it.
MouseUp ==
    /\ Len(timers) < MaxTimers
    /\ \E q \in 0..Len(el.value) :
        \E caretPosition \in {correctCaretPosition(props.c, el.value, q, "")} :
           IF caretPosition # q
           THEN setPatchedCaretPosition("mouseup", "", noEdit, [el EXCEPT !.selectionStart = q],
                                        caretPosition, el.value)
           ELSE /\ Unpatched("mouseup", "", [el EXCEPT !.selectionStart = q],
                             [el EXCEPT !.selectionStart = q])
                /\ timers' = timers
    /\ UNCHANGED <<props, state, status, functions, isComposingRef, valueAsString>>

\* The input gets the focus with the caret at q: handleFocus defers its
\* correction.
Focus ==
    /\ Len(timers) < MaxTimers
    /\ \E q \in 0..Len(el.value) :
          Unpatched("focus", "", [el EXCEPT !.selectionStart = q],
                    [el EXCEPT !.selectionStart = q])
    /\ timers' = Append(timers, [fn |-> "focus", caretPos |-> 0, value |-> <<>>])
    /\ UNCHANGED <<props, state, status, functions, isComposingRef, valueAsString>>

\* Mutant: the deferred callback sets the caret whatever the text is.
TickUnverified ==
    /\ timers # <<>>
    /\ Head(timers).fn = "patch"
    /\ el' = setCaretPosition(el, Head(timers).caretPos)
    /\ timers' = Tail(timers)
    /\ out' = [out EXCEPT !.ev = "tick", !.key = "", !.edit = noEdit, !.el = el,
                          !.timers = timers, !.state = state, !.patched = FALSE,
                          !.caretPos = Head(timers).caretPos, !.value = Head(timers).value]
    /\ UNCHANGED <<props, state, status, functions, isComposingRef, valueAsString>>

\* The oldest timer fires: the callback of setPatchedCaretPosition sets the
\* caret again when the text is still the one it was scheduled with.
Tick ==
    /\ timers # <<>>
    /\ Head(timers).fn = "patch"
    /\ el' = IF el.value = Head(timers).value
             THEN setCaretPosition(el, Head(timers).caretPos) ELSE el
    /\ timers' = Tail(timers)
    /\ out' = [out EXCEPT !.ev = "tick", !.key = "", !.edit = noEdit, !.el = el,
                          !.timers = timers, !.state = state, !.patched = FALSE,
                          !.caretPos = Head(timers).caretPos, !.value = Head(timers).value]
    /\ UNCHANGED <<props, state, status, functions, isComposingRef, valueAsString>>

\* The oldest timer fires and is handleFocus's: it corrects the caret the
\* element has by now.
FocusTick ==
    /\ timers # <<>>
    /\ Head(timers).fn = "focus"
    /\ \E caretPosition \in {correctCaretPosition(props.c, el.value, el.selectionStart, "")} :
          IF caretPosition # el.selectionStart
          THEN /\ el' = setCaretPosition(el, caretPosition)
               /\ timers' = Append(Tail(timers), [fn |-> "patch", caretPos |-> caretPosition,
                                                  value |-> el.value])
               /\ out' = [ev |-> "focustick", key |-> "", edit |-> noEdit, el |-> el,
                          timers |-> timers, state |-> state, patched |-> TRUE,
                          caretPos |-> caretPosition, value |-> el.value,
                          established |-> el'.selectionStart]
          ELSE /\ el' = el
               /\ timers' = Tail(timers)
               /\ out' = [out EXCEPT !.ev = "focustick", !.key = "", !.edit = noEdit, !.el = el,
                                     !.timers = timers, !.state = state, !.patched = FALSE,
                                     !.caretPos = 0, !.value = <<>>]
    /\ UNCHANGED <<props, state, status, functions, isComposingRef, valueAsString>>

\* The parent passes another value: the props effect formats it, and the
\* render that shows a new text leaves the caret at its end.
CaretPropUpdate ==
    /\ \E x \in {<<>>, <<"-", "5">>} :
        \E p \in {[props EXCEPT !.value = StringValue(x), !.rev = 1 - props.rev]} :
           /\ props' = p
           /\ \E r \in {propsChangeEffect(p, state)} :
                 /\ state' = r.state
                 /\ Unpatched("props", "", el,
                              IF r.state.value = el.value THEN el
                              ELSE [value |-> r.state.value,
                                    selectionStart |-> Len(r.state.value)])
    /\ UNCHANGED <<status, timers, functions, isComposingRef, valueAsString>>

InitCaret ==
    /\ arg = noArg
    /\ ret = noRet
    /\ props \in { [noProps EXCEPT !.c = c, !.value = StringValue(x)] :
                     c \in {cUSD, cPct, [defaults EXCEPT !.format = <<"(", "#", "#", ")">>]},
                     x \in {<<>>, <<"-", "5">>} }
    /\ state = getInitialState(props)
    /\ status = "mounted"
    /\ isComposingRef = FALSE
    /\ valueAsString = <<>>
    /\ el = [value |-> state.value, selectionStart |-> Len(state.value)]
    /\ timers = <<>>
    /\ out = [ev |-> "none", key |-> "", edit |-> noEdit, el |-> el, timers |-> <<>>,
              state |-> state, patched |-> FALSE, caretPos |-> 0, value |-> <<>>,
              established |-> el.selectionStart]

NextCaret == KeyDown \/ Input \/ MouseUp \/ Focus \/ Tick \/ FocusTick \/ CaretPropUpdate

SpecCaret == InitCaret /\ [][NextCaret]_vars

\* C22: every position passed to setPatchedCaretPosition lies in the
\* editable window of the text it is passed with: inside the text, in
\* numeric mode not before the prefix (and a leading '-') and not after the
\* start of the suffix, in pattern mode between the first '#' and the
\* position after the last '#'.
C22_BoundaryClamping ==
    out.patched =>
        /\ 0 <= out.caretPos /\ out.caretPos <= Len(out.value)
        /\ IF hasFormat(props.c)
           THEN /\ IndexOf(props.c.format, <<"#">>, 0) <= out.caretPos
                /\ out.caretPos <= LastIndexOf(props.c.format, <<"#">>) + 1
           ELSE /\ Len(props.c.prefix) + (IF CharAt(out.value, 0) = "-" THEN 1 ELSE 0)
                      <= out.caretPos
                /\ out.caretPos <= Len(out.value) - Len(props.c.suffix)

\* C21: with a collapsed selection, Home places the caret at the first
\* editable position (prefix.length, plus one after a leading '-', in
\* numeric mode; the index of the first '#' in pattern mode) and End at the
\* last one (text length minus suffix.length; index of the last '#' plus
\* one), and neither key changes the text or the EditState.
C21_HomeEndRespectProtectedZones ==
    (out.ev = "keydown" /\ out.key \in {"Home", "End"}) =>
        /\ el.value = out.el.value
        /\ state = out.state
        /\ out.key = "Home" =>
              el.selectionStart =
                 IF hasFormat(props.c) THEN IndexOf(props.c.format, <<"#">>, 0)
                 ELSE Len(props.c.prefix) + (IF CharAt(el.value, 0) = "-" THEN 1 ELSE 0)
        /\ out.key = "End" =>
              el.selectionStart =
                 IF hasFormat(props.c) THEN LastIndexOf(props.c.format, <<"#">>) + 1
                 ELSE Len(el.value) - Len(props.c.suffix)

\* C24: patch-and-reverify.  A call of setPatchedCaretPosition sets the
\* caret at once and schedules exactly one callback for its position and
\* text; when the callback runs it sets the caret if the text of the input
\* is still that text, and otherwise changes neither the caret nor the text;
\* in both cases the text, the state and the other timers stay as they are.
C24_PatchAndReverify ==
    /\ out.patched =>
          /\ el = setCaretPosition([out.el EXCEPT !.value = out.value], out.caretPos)
          /\ timers # <<>>
          /\ timers[Len(timers)] = [fn |-> "patch", caretPos |-> out.caretPos,
                                    value |-> out.value]
          /\ SubSeq(timers, 1, Len(timers) - 1) =
                IF out.ev = "focustick" THEN Tail(out.timers) ELSE out.timers
    /\ out.ev = "tick" =>
          /\ el = IF out.el.value = out.value
                  THEN setCaretPosition(out.el, out.caretPos) ELSE out.el
          /\ timers = Tail(out.timers)
          /\ state = out.state

\* A callback ran after a second edit or a prop update had changed the text,
\* with the caret elsewhere than its position: it did nothing.
C24_Witness ==
    /\ out.ev = "tick"
    /\ out.el.value # out.value
    /\ out.el.selectionStart # out.caretPos
    /\ out.caretPos <= Len(out.el.value)

\* A callback ran on the text it was scheduled with and moved the caret back.
C24_WitnessReapplied ==
    /\ out.ev = "tick"
    /\ out.el.value = out.value
    /\ out.el.selectionStart # el.selectionStart

\* C27: no stale caret after quiescence.  Once every deferred callback has
\* run, the caret is where the most recent event (a key, a click, an edit, a
\* focus correction or a render of a new text) left it, never at a position
\* that an earlier event scheduled.
C27_NoStaleCaretAfterQuiescence ==
    timers = <<>> => el.selectionStart = out.established

\* The user pressed Backspace with the caret right behind the prefix and the
\* leading '-' of a negative numeric value, or removed the leading '-'.
SignDeletion ==
    /\ ~hasFormat(props.c)
    /\ props.c.allowNegative
    /\ CharAt(out.el.value, 0) = "-"
    /\ KeepIn(out.el.value, Digits) # <<>>
    /\ \/ /\ out.ev = "keydown" /\ out.key = "Backspace"
          /\ out.el.selectionStart = Len(props.c.prefix) + 1
       \/ /\ out.ev = "change"
          /\ out.edit = [from |-> 0, to |-> 1, ins |-> <<>>]

\* C30: the negation sign can be deleted.  In numeric mode with
\* allowNegative, Backspace at the first editable position of a negative
\* value, or the deletion of the leading '-', leaves the same text and raw
\* value without the sign.
C30_NegationSignDeletable ==
    SignDeletion =>
        /\ el.value = Tail(out.el.value)
        /\ state.value = Tail(out.state.value)
        /\ state.numAsString = Tail(out.state.numAsString)

====
